---- MODULE Spec2Model ----
(***************************************************************************)
(* Verification model of serde_arrow: the tuple builder state machine,     *)
(* the incremental ArraysBuilder, the primitive round trip through         *)
(* to_arrow2 / from_arrow2 and the date-time string wrappers.              *)
(***************************************************************************)
EXTENDS Integers, Sequences, FiniteSets, TLC

VARIABLES
    \* TupleStructBuilder (internal/generic_sinks/tuple.rs)
    builders,     \* Vec<B>: the child builders, in declared order
    validity,     \* Vec<bool>
    state,        \* TupleArrayBuilderState
    finished,     \* bool
    lastEv,       \* the event of the last accept call ("finish" for finish)
    result,       \* what the last call returned: "Ok", "Err", or "Panic"
    hist,         \* the events accepted so far (calls that returned Ok)
    \* ArraysBuilder (internal/mod.rs)
    fields,       \* Vec<GenericField>
    builder,      \* StructArrayBuilder over one child builder per field
    arrays,       \* what the last build_arrays returned (<<>> when it failed)
    abOp,         \* the last call: "new", "push", "extend" or "build"
    abResult,     \* what the last call returned: "Ok" or "Err"
    accepted,     \* the records of the push / extend calls that returned Ok
                  \* since the last build_arrays (or since new)
    batch,        \* accepted, as it was when build_arrays was last called
    builds,       \* the number of build_arrays calls so far
    abArg,        \* the records given to the last push / extend call
    \* to_arrow2 / from_arrow2 (arrow2_impl/api.rs)
    rtFields,     \* the fields argument
    rtItems,      \* the items given to to_arrow2
    rtArrays,     \* the arrays to_arrow2 returned
    rtOut,        \* the items from_arrow2 returned
    rtPc,         \* "items", "written" (after to_arrow2), "read" (after from_arrow2)
    rtResult,     \* what the last call returned: "Ok" or "Err"
    \* date-time string wrappers (generic/chrono.rs)
    tsKind,       \* "Naive": NaiveDateTimeStr*, "Utc": DateTimeStr*
    srcEv,        \* the event the wrapped source produces
    strEv,        \* the event the Str source returns for it
    sinkEv,       \* the event the wrapped builder receives
    tsPc,         \* "source", "text" (after next), "done" (after accept)
    tsResult,     \* what the last call returned: "Ok", "Err" or "Panic"
    \* serialize_into_fields (internal/mod.rs)
    trItems,      \* the items argument: the samples
    trOptions,    \* the options argument
    trRoot,       \* the root field the tracer returned (NoField if it failed)
    trFields,     \* the fields returned
    trPc,         \* "samples", "done" (after serialize_into_fields)
    trResult,     \* "Ok", or the error the call returned
    \* two ArraysBuilder instances (internal/mod.rs)
    insts,        \* per instance: its fields and builder, the calls made on
                  \* it and what each returned
    \* dictionary builder
    dictBuilder,  \* the dictionary values and the key buffer
    dictFed       \* the values fed so far

tupleVars == <<builders, validity, state, finished, lastEv, result, hist>>
arraysVars == <<fields, builder, arrays, abOp, abResult, accepted, batch, builds,
                abArg>>

rtVars == <<rtFields, rtItems, rtArrays, rtOut, rtPc, rtResult>>
tsVars == <<tsKind, srcEv, strEv, sinkEv, tsPc, tsResult>>
trVars == <<trItems, trOptions, trRoot, trFields, trPc, trResult>>
pairVars == <<insts>>
dictVars == <<dictBuilder, dictFed>>

vars == <<builders, validity, state, finished, lastEv, result, hist,
          fields, builder, arrays, abOp, abResult, accepted, batch, builds,
          abArg,
          rtFields, rtItems, rtArrays, rtOut, rtPc, rtResult,
          tsKind, srcEv, strEv, sinkEv, tsPc, tsResult,
          trItems, trOptions, trRoot, trFields, trPc, trResult,
          insts, dictBuilder, dictFed>>

----------------------------------------------------------------------------
(* Bounds *)

MaxEvents == 6
MaxRecords == 3
MaxBuilds == 2
MaxItems == 3
MaxMillis == 40
MaxExtend == 2
MaxCalls == 3

----------------------------------------------------------------------------
(* Events (base::Event).  Every event is a record [t, v]; v is 0 for the   *)
(* events that carry no payload.                                           *)

Ev(t) == [t |-> t, v |-> 0]
I64(n) == [t |-> "I64", v |-> n]
Str(s) == [t |-> "Str", v |-> s]

StartEvents == {Ev("StartTuple"), Ev("StartStruct"), Ev("StartList"), Ev("StartMap")}
EndEvents == {Ev("EndTuple"), Ev("EndStruct"), Ev("EndList"), Ev("EndMap")}
MarkerEvents == {Ev("Some")}
ValueEvents == {Ev("Null"), Ev("Default"), I64(1), I64(2), Str("a")}

NoEvent == Ev("None")

----------------------------------------------------------------------------
(* Primitive arrays and their builders *)

UnsignedTypes == {"U8", "U16", "U32", "U64"}
SignedTypes == {"I8", "I16", "I32", "I64"}
IntTypes == UnsignedTypes \cup SignedTypes
StringTypes == {"Utf8", "LargeUtf8"}
PrimitiveTypes == {"Bool"} \cup IntTypes \cup StringTypes

\* a scalar event of type t
Scalar(t, v) == [t |-> t, v |-> v]

\* the least and greatest value of the 8 and 16 bit integer types; the
\* values explored all lie in the 32 and 64 bit types' ranges
MinOf(dt) == CASE dt = "I8" -> -128 [] dt = "I16" -> -32768 [] OTHER -> 0
MaxOf(dt) ==
    CASE dt = "U8" -> 255 [] dt = "I8" -> 127
      [] dt = "U16" -> 65535 [] dt = "I16" -> 32767

InRange(dt, v) ==
    CASE dt \in {"U8", "I8", "U16", "I16"} -> MinOf(dt) <= v /\ v <= MaxOf(dt)
      [] dt \in {"U32", "U64"} -> 0 <= v
      [] OTHER -> TRUE

\* an empty array of a field: validity, fixed-width values (bits for Bool),
\* and offsets and bytes for the string types
NewArray(f) ==
    [data_type |-> f.data_type,
     validity |-> <<>>,
     values |-> <<>>,
     offsets |-> IF f.data_type \in StringTypes THEN <<0>> ELSE <<>>,
     data |-> <<>>]

ArrayLen(a) == Len(a.validity)

\* appending one slot to an array: a value, or a null with a placeholder
PushValid(a, x) ==
    IF a.data_type \in StringTypes
    THEN [a EXCEPT !.validity = Append(@, TRUE),
                   !.data = @ \o x,
                   !.offsets = Append(@, @[Len(@)] + Len(x))]
    ELSE [a EXCEPT !.validity = Append(@, TRUE), !.values = Append(@, x)]

PushNull(a, placeholder) ==
    IF a.data_type \in StringTypes
    THEN [a EXCEPT !.validity = Append(@, FALSE),
                   !.offsets = Append(@, @[Len(@)])]
    ELSE [a EXCEPT !.validity = Append(@, FALSE), !.values = Append(@, placeholder)]

\* 2^8 and 2^16
Modulus(dt) == IF dt \in {"U8", "I8"} THEN 256 ELSE 65536

\* v reduced into the range of an 8 or 16 bit type, as a cast does
Wrap(dt, v) ==
    IF dt \in {"U8", "U16"} THEN v % Modulus(dt)
    ELSE ((v - MinOf(dt)) % Modulus(dt)) + MinOf(dt)

\* Coerce that accepts only events of the field's own type
Coerce_exact(dt, ev) ==
    CASE dt = "Bool" /\ ev.t = "Bool" -> [ok |-> TRUE, x |-> IF ev.v THEN 1 ELSE 0]
      [] dt \in IntTypes /\ ev.t = dt -> [ok |-> TRUE, x |-> ev.v]
      [] dt \in StringTypes /\ ev.t = "Str" -> [ok |-> TRUE, x |-> ev.v]
      [] OTHER -> [ok |-> FALSE, x |-> 0]

\* Coerce that casts an integer into the 8 and 16 bit types
Coerce_wraps(dt, ev) ==
    CASE dt = "Bool" /\ ev.t = "Bool" -> [ok |-> TRUE, x |-> IF ev.v THEN 1 ELSE 0]
      [] dt \in {"U8", "I8", "U16", "I16"} /\ ev.t \in IntTypes ->
            [ok |-> TRUE, x |-> Wrap(dt, ev.v)]
      [] dt \in IntTypes /\ ev.t \in IntTypes /\ InRange(dt, ev.v) ->
            [ok |-> TRUE, x |-> ev.v]
      [] dt \in StringTypes /\ ev.t = "Str" -> [ok |-> TRUE, x |-> ev.v]
      [] OTHER -> [ok |-> FALSE, x |-> 0]

\* the event, converted to the field's native type, or "mismatch"
Coerce(dt, ev) ==
    CASE dt = "Bool" /\ ev.t = "Bool" -> [ok |-> TRUE, x |-> IF ev.v THEN 1 ELSE 0]
      [] dt \in IntTypes /\ ev.t \in IntTypes /\ InRange(dt, ev.v) ->
            [ok |-> TRUE, x |-> ev.v]
      [] dt \in StringTypes /\ ev.t = "Str" -> [ok |-> TRUE, x |-> ev.v]
      [] OTHER -> [ok |-> FALSE, x |-> 0]

\* primitive builder: one member (the marker Some is skipped)
WriteMember(a, f, m, placeholder) ==
    IF m.ev.t = "Null"
    THEN IF f.nullable THEN [a |-> PushNull(a, placeholder), res |-> "Ok"]
         ELSE [a |-> a, res |-> "Err"]
    ELSE LET c == Coerce(f.data_type, m.ev) IN
         IF c.ok THEN [a |-> PushValid(a, c.x), res |-> "Ok"]
         ELSE [a |-> a, res |-> "Err"]

Took(c, ev) == [c EXCEPT !.log = Append(@, ev)]

\* generic_sinks::build_array_builder for a primitive field: the builder
\* owns the array it fills; log holds the events it accepted
build_array_builder(f, placeholder) ==
    [nest |-> 0, depth |-> 0, log |-> <<>>,
     field |-> f, array |-> NewArray(f), placeholder |-> placeholder]

\* the zero-equivalent of a type, stored for Default
DefaultValue(dt) == IF dt \in StringTypes THEN <<>> ELSE 0

\* EventSink::accept of a primitive array builder: the marker Some is
\* skipped, Default stores the zero-equivalent as a present value, every
\* other event is stored as one slot or rejected
PrimitiveAccept(c, ev) ==
    CASE ev.t = "Some" -> [b |-> Took(c, ev), res |-> "Ok"]
      [] ev.t = "Default" ->
            [b |-> [Took(c, ev) EXCEPT
                       !.array = PushValid(@, DefaultValue(c.field.data_type))],
             res |-> "Ok"]
      [] OTHER ->
            LET w == WriteMember(c.array, c.field, [some |-> FALSE, ev |-> ev],
                                 c.placeholder)
            IN IF w.res = "Ok"
               THEN [b |-> [Took(c, ev) EXCEPT !.array = w.a], res |-> "Ok"]
               ELSE [b |-> c, res |-> "Err"]

----------------------------------------------------------------------------
(* Child builders.  A child is a builder for List^nest(Int64): nest = 0 is *)
(* a primitive Int64 builder, nest = k a k-fold nested list of Int64.      *)
(* log holds the events the child accepted, depth its open list nesting.   *)

NewChild(nest) == [nest |-> nest, depth |-> 0, log |-> <<>>, done |-> FALSE]

\* accept on a list builder: [b |-> the child afterwards, res |-> "Ok" | "Err"]
ListAccept(c, ev) ==
    CASE ev.t = "StartList" ->
            IF c.depth < c.nest
            THEN [b |-> [Took(c, ev) EXCEPT !.depth = @ + 1], res |-> "Ok"]
            ELSE [b |-> c, res |-> "Err"]
      [] ev.t = "EndList" ->
            IF c.depth > 0
            THEN [b |-> [Took(c, ev) EXCEPT !.depth = @ - 1], res |-> "Ok"]
            ELSE [b |-> c, res |-> "Err"]
      [] ev.t \in {"Null", "Default", "Some"} -> [b |-> Took(c, ev), res |-> "Ok"]
      [] ev.t = "I64" ->
            IF c.depth = c.nest
            THEN [b |-> Took(c, ev), res |-> "Ok"]
            ELSE [b |-> c, res |-> "Err"]
      [] OTHER -> [b |-> c, res |-> "Err"]

\* accept on a child builder (DynamicArrayBuilder): that of the builder the
\* child was built as
ChildAccept(c, ev) ==
    IF "array" \in DOMAIN c THEN PrimitiveAccept(c, ev) ELSE ListAccept(c, ev)

\* finish on a child builder fails while one of its lists is open
ChildFinish(c) == IF c.depth = 0 THEN "Ok" ELSE "Err"

\* the number of complete top-level elements a child holds
RECURSIVE ElemsFrom(_, _)
ElemsFrom(log, d) ==
    IF log = <<>> THEN 0
    ELSE LET e == Head(log) IN
         CASE e.t = "StartList" -> ElemsFrom(Tail(log), d + 1)
           [] e.t = "EndList" -> (IF d = 1 THEN 1 ELSE 0) + ElemsFrom(Tail(log), d - 1)
           [] e.t = "Some" -> ElemsFrom(Tail(log), d)
           [] OTHER -> (IF d = 0 THEN 1 ELSE 0) + ElemsFrom(Tail(log), d)

Elems(c) == ElemsFrom(c.log, 0)

----------------------------------------------------------------------------
(* TupleStructBuilder *)

Start == [tag |-> "Start", active |-> 0, depth |-> 0]
Value(active, depth) == [tag |-> "Value", active |-> active, depth |-> depth]

\* TupleStructBuilder::new
TupleNew(layout) ==
    [builders |-> [i \in 1..Len(layout) |-> NewChild(layout[i])],
     validity |-> <<>>,
     state |-> Start,
     finished |-> FALSE]

Ret(this, res) == [this |-> this, res |-> res]

\* a forward that assigns the new state before it asks the child
Forward_assigns_state_first(this, ev, newState) ==
    LET active == this.state.active IN
    IF active >= Len(this.builders) THEN Ret(this, "Panic")
    ELSE LET r == ChildAccept(this.builders[active + 1], ev)
             that == [this EXCEPT !.builders[active + 1] = r.b, !.state = newState]
         IN Ret(that, r.res)

\* next(&mut this.builders[active], val)?  followed by  this.state = newState.
\* Indexing past the end of the Vec panics; an error of the child returns
\* before the state is assigned.
Forward(this, ev, newState) ==
    LET active == this.state.active IN
    IF active >= Len(this.builders) THEN Ret(this, "Panic")
    ELSE LET r == ChildAccept(this.builders[active + 1], ev)
             that == [this EXCEPT !.builders[active + 1] = r.b]
         IN IF r.res = "Ok"
            THEN Ret([that EXCEPT !.state = newState], "Ok")
            ELSE Ret(that, "Err")

\* accept_start whose Start arm opens a record on every Start event
accept_start_opens_on_any_start(this, ev) ==
    IF this.state.tag = "Start"
    THEN Ret([this EXCEPT !.state = Value(0, 0)], "Ok")
    ELSE Forward(this, ev, Value(this.state.active, this.state.depth + 1))

accept_start(this, ev) ==
    IF this.state.tag = "Start"
    THEN IF ev.t = "StartTuple"
         THEN Ret([this EXCEPT !.state = Value(0, 0)], "Ok")
         ELSE Ret(this, "Err")
    ELSE Forward(this, ev, Value(this.state.active, this.state.depth + 1))

\* accept_end with its Start arm closing a record instead of failing
accept_end_closes_in_start(this, ev) ==
    CASE this.state.tag = "Start" \/ this.state.depth = 0 ->
            IF ev.t = "EndTuple"
            THEN Ret([this EXCEPT !.validity = Append(@, TRUE), !.state = Start], "Ok")
            ELSE Ret(this, "Err")
      [] OTHER ->
            Forward(this, ev, Value(this.state.active + 1, this.state.depth - 1))

\* accept_end whose Value(_, 0) arm closes the record on every End event
accept_end_any_end_closes(this, ev) ==
    CASE this.state.tag = "Start" -> Ret(this, "Err")
      [] this.state.tag = "Value" /\ this.state.depth = 0 ->
            Ret([this EXCEPT !.validity = Append(@, TRUE), !.state = Start], "Ok")
      [] OTHER ->
            Forward(this, ev, Value(this.state.active + 1, this.state.depth - 1))

accept_end(this, ev) ==
    CASE this.state.tag = "Start" -> Ret(this, "Err")
      [] this.state.tag = "Value" /\ this.state.depth = 0 ->
            IF ev.t = "EndTuple"
            THEN Ret([this EXCEPT !.validity = Append(@, TRUE), !.state = Start], "Ok")
            ELSE Ret(this, "Err")
      [] OTHER ->
            Forward(this, ev, Value(this.state.active + 1, this.state.depth - 1))

\* accept_marker that records a marker received in Start state as a record
accept_marker_counts_record(this, ev) ==
    IF this.state.tag = "Start"
    THEN Ret([this EXCEPT !.validity = Append(@, TRUE)], "Ok")
    ELSE Forward(this, ev, Value(this.state.active, this.state.depth))

\* macros::accept_marker
accept_marker(this, ev) ==
    IF this.state.tag = "Start"
    THEN Ret(this, "Ok")
    ELSE Forward(this, ev, Value(this.state.active, this.state.depth))

\* for builder in &mut this.builders { builder.accept_default()?; }
RECURSIVE DefaultAll(_, _)
DefaultAll(bs, i) ==
    IF i > Len(bs) THEN [bs |-> bs, res |-> "Ok"]
    ELSE LET r == ChildAccept(bs[i], Ev("Default")) IN
         IF r.res = "Ok"
         THEN DefaultAll([bs EXCEPT ![i] = r.b], i + 1)
         ELSE [bs |-> [bs EXCEPT ![i] = r.b], res |-> "Err"]

\* accept_value that does not advance to the next child after a value
accept_value_keeps_active(this, ev) ==
    CASE this.state.tag = "Start" ->
            IF ev.t \in {"Null", "Default"}
            THEN LET r == DefaultAll(this.builders, 1)
                     that == [this EXCEPT !.builders = r.bs]
                 IN IF r.res = "Ok"
                    THEN Ret([that EXCEPT !.validity = Append(@, ev.t = "Default"),
                                          !.state = Start], "Ok")
                    ELSE Ret(that, "Err")
            ELSE Ret(this, "Err")
      [] OTHER ->
            Forward(this, ev, Value(this.state.active, this.state.depth))

\* accept_value that records a Null in Start state as a present record
accept_value_null_is_valid(this, ev) ==
    CASE this.state.tag = "Start" ->
            IF ev.t \in {"Null", "Default"}
            THEN LET r == DefaultAll(this.builders, 1)
                     that == [this EXCEPT !.builders = r.bs]
                 IN IF r.res = "Ok"
                    THEN Ret([that EXCEPT !.validity = Append(@, TRUE),
                                          !.state = Start], "Ok")
                    ELSE Ret(that, "Err")
            ELSE Ret(this, "Err")
      [] this.state.tag = "Value" /\ this.state.depth = 0 ->
            Forward(this, ev, Value(this.state.active + 1, 0))
      [] OTHER ->
            Forward(this, ev, Value(this.state.active, this.state.depth))

accept_value(this, ev) ==
    CASE this.state.tag = "Start" ->
            IF ev.t \in {"Null", "Default"}
            THEN LET r == DefaultAll(this.builders, 1)
                     that == [this EXCEPT !.builders = r.bs]
                 IN IF r.res = "Ok"
                    THEN Ret([that EXCEPT !.validity = Append(@, ev.t = "Default"),
                                          !.state = Start], "Ok")
                    ELSE Ret(that, "Err")
            ELSE Ret(this, "Err")
      [] this.state.tag = "Value" /\ this.state.depth = 0 ->
            Forward(this, ev, Value(this.state.active + 1, 0))
      [] OTHER ->
            Forward(this, ev, Value(this.state.active, this.state.depth))

\* for builder in &mut self.builders { builder.finish()?; }: the children
\* are finished in declared order and the first error returns
RECURSIVE FinishAll(_, _)
FinishAll(bs, i) ==
    IF i > Len(bs) THEN [bs |-> bs, res |-> "Ok"]
    ELSE IF ChildFinish(bs[i]) = "Ok"
         THEN FinishAll([bs EXCEPT ![i].done = TRUE], i + 1)
         ELSE [bs |-> bs, res |-> "Err"]

\* finish that does not look at the state
finish_ignores_state(this) ==
    LET r == FinishAll(this.builders, 1)
        that == [this EXCEPT !.builders = r.bs]
    IN IF r.res = "Ok" THEN Ret([that EXCEPT !.finished = TRUE], "Ok")
       ELSE Ret(that, "Err")

\* TupleStructBuilder::finish
finish(this) ==
    IF this.state.tag # "Start" THEN Ret(this, "Err")
    ELSE LET r == FinishAll(this.builders, 1)
             that == [this EXCEPT !.builders = r.bs]
         IN IF r.res = "Ok" THEN Ret([that EXCEPT !.finished = TRUE], "Ok")
            ELSE Ret(that, "Err")

\* macros::forward_generic_to_specialized: accept dispatches on the event
accept(this, ev) ==
    CASE ev \in StartEvents -> accept_start(this, ev)
      [] ev \in EndEvents -> accept_end(this, ev)
      [] ev \in MarkerEvents -> accept_marker(this, ev)
      [] OTHER -> accept_value(this, ev)

----------------------------------------------------------------------------
(* The tuple builder as a state machine *)

\* the schemas explored: the list nesting level of each child, in declared order
Layouts == {<<0>>, <<0, 0>>, <<1, 0>>, <<2>>}

This == [builders |-> builders, validity |-> validity, state |-> state,
         finished |-> finished]

Install(r, ev) ==
    /\ builders' = r.this.builders
    /\ validity' = r.this.validity
    /\ state' = r.this.state
    /\ finished' = r.this.finished
    /\ lastEv' = ev
    /\ result' = r.res
    /\ hist' = IF r.res = "Ok" THEN Append(hist, ev) ELSE hist
    /\ UNCHANGED <<arraysVars, rtVars, tsVars, trVars, pairVars, dictVars>>

\* a panic aborts the process; a finished builder takes no more events
Live == result # "Panic" /\ ~finished /\ Len(hist) < MaxEvents

InitTuple ==
    /\ \E layout \in Layouts :
          builders = [i \in 1..Len(layout) |-> NewChild(layout[i])]
    /\ validity = <<>>
    /\ state = Start
    /\ finished = FALSE
    /\ lastEv = NoEvent
    /\ result = "Ok"
    /\ hist = <<>>

AcceptStart == Live /\ \E ev \in StartEvents : Install(accept(This, ev), ev)
AcceptEnd == Live /\ \E ev \in EndEvents : Install(accept(This, ev), ev)
AcceptMarker == Live /\ \E ev \in MarkerEvents : Install(accept(This, ev), ev)
AcceptValue == Live /\ \E ev \in ValueEvents : Install(accept(This, ev), ev)
Finish == result # "Panic" /\ ~finished /\ Install(finish(This), Ev("finish"))

NextTuple == AcceptStart \/ AcceptEnd \/ AcceptMarker \/ AcceptValue \/ Finish

\* the state of the tuple builder while another component is explored
TupleIdle ==
    /\ builders = <<>> /\ validity = <<>> /\ state = Start /\ finished = FALSE
    /\ lastEv = NoEvent /\ result = "Ok" /\ hist = <<>>

----------------------------------------------------------------------------
(* ArraysBuilder *)

Field(name, data_type, nullable) ==
    [name |-> name, data_type |-> data_type, nullable |-> nullable]

\* the schemas explored (the two-field one is that of the doc examples)
Schemas == {<<Field("a", "I64", TRUE), Field("b", "I64", FALSE)>>,
            <<Field("item", "I64", FALSE)>>}

\* A record member: an optional or plain value.  Some(x) serializes to the
\* marker Some followed by x, None to Null, a plain value to itself.
Member(some, ev) == [some |-> some, ev |-> ev]
MemberEvents(m) == IF m.some THEN <<Ev("Some"), m.ev>> ELSE <<m.ev>>

RECURSIVE Flatten(_)
Flatten(ss) == IF ss = <<>> THEN <<>> ELSE Head(ss) \o Flatten(Tail(ss))

\* the events one record serializes to
RecordEvents(rec) ==
    <<Ev("StartStruct")>> \o Flatten([i \in 1..Len(rec) |-> MemberEvents(rec[i])])
        \o <<Ev("EndStruct")>>

\* the events a sequence of records serializes to
SequenceEvents(recs) ==
    <<Ev("StartList")>> \o Flatten([j \in 1..Len(recs) |-> RecordEvents(recs[j])])
        \o <<Ev("EndList")>>

\* the members a field is given: values of its type and, for the
\* non-nullable field, a string, which an Int64 builder rejects
MembersFor(f) ==
    IF f.nullable
    THEN {Member(TRUE, I64(1)), Member(FALSE, Ev("Null"))}
    ELSE {Member(FALSE, I64(2)), Member(FALSE, Str("a"))}

\* the records pushed: one member per field of the schema
RecordsOf(fs) ==
    {rec \in [1..Len(fs) -> UNION {MembersFor(fs[i]) : i \in 1..Len(fs)}] :
        \A i \in 1..Len(fs) : rec[i] \in MembersFor(fs[i])}

\* generic_sinks::build_struct_array_builder
build_struct_array_builder(fs) ==
    [builders |-> [i \in 1..Len(fs) |-> NewChild(0)],
     validity |-> <<>>,
     state |-> Start,
     finished |-> FALSE]

\* StructArrayBuilder::accept
StructAccept(this, ev) ==
    CASE this.state.tag = "Start" ->
            CASE ev.t = "StartStruct" ->
                    Ret([this EXCEPT !.state = Value(0, 0)], "Ok")
              [] ev.t \in {"Null", "Default"} ->
                    LET r == DefaultAll(this.builders, 1)
                        that == [this EXCEPT !.builders = r.bs]
                    IN IF r.res = "Ok"
                       THEN Ret([that EXCEPT !.validity = Append(@, ev.t = "Default")],
                                "Ok")
                       ELSE Ret(that, "Err")
              [] ev.t = "Some" -> Ret(this, "Ok")
              [] OTHER -> Ret(this, "Err")
      [] ev.t = "EndStruct" ->
            IF this.state.active = Len(this.builders)
            THEN Ret([this EXCEPT !.validity = Append(@, TRUE), !.state = Start], "Ok")
            ELSE Ret(this, "Err")
      [] this.state.active >= Len(this.builders) -> Ret(this, "Err")
      [] OTHER ->
            LET r == ChildAccept(this.builders[this.state.active + 1], ev)
                that == [this EXCEPT !.builders[this.state.active + 1] = r.b]
            IN IF r.res # "Ok" THEN Ret(that, "Err")
               ELSE IF ev.t = "Some" THEN Ret(that, "Ok")
               ELSE Ret([that EXCEPT !.state = Value(this.state.active + 1, 0)], "Ok")

\* item.serialize(EventSerializer(sink))?: the events are fed in order and
\* the first error returns
RECURSIVE Feed(_, _)
Feed(this, evs) ==
    IF evs = <<>> THEN Ret(this, "Ok")
    ELSE LET r == StructAccept(this, Head(evs)) IN
         IF r.res = "Ok" THEN Feed(r.this, Tail(evs)) ELSE r

\* StripOuterSequenceSink: the outermost StartList / EndList pair is
\* consumed, every event between them reaches the wrapped sink
FeedStripped(this, evs) ==
    IF Len(evs) >= 2 /\ Head(evs) = Ev("StartList") /\ evs[Len(evs)] = Ev("EndList")
    THEN Feed(this, SubSeq(evs, 2, Len(evs) - 1))
    ELSE Ret(this, "Err")

\* ArraysBuilder::push
push(this, item) == Feed(this, RecordEvents(item))

\* extend that hands the outer sequence to the struct builder
extend_keeps_outer(this, items) == Feed(this, SequenceEvents(items))

\* ArraysBuilder::extend
extend(this, items) == FeedStripped(this, SequenceEvents(items))

\* StructArrayBuilder::finish
StructFinish(this) ==
    IF this.state.tag # "Start" THEN Ret(this, "Err")
    ELSE Ret([this EXCEPT !.finished = TRUE], "Ok")

\* the array of one child builder: one cell per value it took
RECURSIVE Cells(_)
Cells(log) ==
    IF log = <<>> THEN <<>>
    ELSE IF Head(log).t = "Some" THEN Cells(Tail(log))
         ELSE <<Head(log)>> \o Cells(Tail(log))

\* StructArrayBuilder::build_arrays: one array per child, in child order
StructBuildArrays(fs, this) ==
    [i \in 1..Len(this.builders) |->
        [field |-> fs[i].name, cells |-> Cells(this.builders[i].log)]]

\* build_arrays that finishes and builds without swapping in a fresh builder
build_arrays_keeps_builder(fs, this) ==
    LET old == StructFinish(this)
    IN IF old.res = "Ok"
       THEN [builder |-> this, res |-> "Ok", arrays |-> StructBuildArrays(fs, old.this)]
       ELSE [builder |-> this, res |-> "Err", arrays |-> <<>>]

\* build_arrays that does not return the error of finish
build_arrays_ignores_finish(fs, this) ==
    [builder |-> build_struct_array_builder(fs), res |-> "Ok",
     arrays |-> StructBuildArrays(fs, this)]

\* build_arrays that swaps the fresh builder in after finish succeeded
build_arrays_swaps_after_finish(fs, this) ==
    LET old == StructFinish(this)
    IN IF old.res = "Ok"
       THEN [builder |-> build_struct_array_builder(fs), res |-> "Ok",
             arrays |-> StructBuildArrays(fs, old.this)]
       ELSE [builder |-> this, res |-> "Err", arrays |-> <<>>]

\* ArraysBuilder::build_arrays: a fresh builder is swapped in, the old one
\* is finished and turned into arrays
build_arrays(fs, this) ==
    LET fresh == build_struct_array_builder(fs)
        old == StructFinish(this)
    IN IF old.res = "Ok"
       THEN [builder |-> fresh, res |-> "Ok", arrays |-> StructBuildArrays(fs, old.this)]
       ELSE [builder |-> fresh, res |-> "Err", arrays |-> <<>>]

ArraysIdle ==
    /\ fields = <<>> /\ builder = build_struct_array_builder(<<>>)
    /\ arrays = <<>> /\ abOp = "new" /\ abResult = "Ok"
    /\ accepted = <<>> /\ batch = <<>> /\ builds = 0 /\ abArg = <<>>

\* ArraysBuilder::new
ArraysNew ==
    /\ fields \in Schemas
    /\ builder = build_struct_array_builder(fields)
    /\ arrays = <<>> /\ abOp = "new" /\ abResult = "Ok"
    /\ accepted = <<>> /\ batch = <<>> /\ builds = 0 /\ abArg = <<>>

\* the records fed to the builder since the last build_arrays; records
\* are fed until MaxBuilds batches were built
Fed == Len(builder.validity) + (IF builder.state.tag = "Start" THEN 0 ELSE 1)

Push ==
    /\ Fed < MaxRecords /\ builds < MaxBuilds
    /\ \E item \in RecordsOf(fields) :
         LET r == push(builder, item) IN
           /\ builder' = r.this
           /\ abResult' = r.res
           /\ accepted' = IF r.res = "Ok" THEN Append(accepted, item) ELSE accepted
           /\ abArg' = <<item>>
    /\ abOp' = "push"
    /\ UNCHANGED <<fields, arrays, batch, builds>>
    /\ UNCHANGED <<tupleVars, rtVars, tsVars, trVars, pairVars, dictVars>>

Extend ==
    /\ builds < MaxBuilds
    /\ \E n \in 0..MaxExtend : \E items \in [1..n -> RecordsOf(fields)] :
         /\ Fed + n <= MaxRecords
         /\ LET r == extend(builder, items) IN
              /\ builder' = r.this
              /\ abResult' = r.res
              /\ accepted' = IF r.res = "Ok" THEN accepted \o items ELSE accepted
              /\ abArg' = items
    /\ abOp' = "extend"
    /\ UNCHANGED <<fields, arrays, batch, builds>>
    /\ UNCHANGED <<tupleVars, rtVars, tsVars, trVars, pairVars, dictVars>>

BuildArrays ==
    /\ builds < MaxBuilds
    /\ LET r == build_arrays(fields, builder) IN
           /\ builder' = r.builder
           /\ abResult' = r.res
           /\ arrays' = r.arrays
    /\ abOp' = "build"
    /\ batch' = accepted
    /\ accepted' = <<>>
    /\ builds' = builds + 1
    /\ abArg' = <<>>
    /\ UNCHANGED fields
    /\ UNCHANGED <<tupleVars, rtVars, tsVars, trVars, pairVars, dictVars>>

NextArrays == Push \/ Extend \/ BuildArrays


----------------------------------------------------------------------------
(* Primitive arrays: to_arrow2 and from_arrow2 *)

\* the values of a type the round trip is explored with (strings are byte
\* sequences)
SampleValues(dt) ==
    CASE dt = "Bool" -> {TRUE, FALSE}
      [] dt \in {"U8", "I8", "U16", "I16"} -> {MinOf(dt), 1, MaxOf(dt)}
      [] dt \in {"U32", "U64"} -> {0, 1, 70000}
      [] dt \in {"I32", "I64"} -> {-70000, -1, 4}
      [] OTHER -> {<<>>, <<97>>, <<98, 99>>}

\* the event a Rust value of the field's type serializes to
EventOf(dt, v) == IF dt \in StringTypes THEN Scalar("Str", v) ELSE Scalar(dt, v)

\* the items conforming to a field: T values for a non-nullable field,
\* Option<T> values for a nullable one
ItemsFor(f) ==
    IF f.nullable
    THEN {Member(TRUE, EventOf(f.data_type, v)) : v \in SampleValues(f.data_type)}
             \cup {Member(FALSE, Ev("Null"))}
    ELSE {Member(FALSE, EventOf(f.data_type, v)) : v \in SampleValues(f.data_type)}

\* serialize_into_sink(&mut interpreter, items)? : record after record,
\* member after member; the first error returns
RECURSIVE WriteItems(_, _, _, _)
WriteItems(as, fs, items, placeholder) ==
    IF items = <<>> THEN [arrays |-> as, res |-> "Ok"]
    ELSE LET rec == Head(items)
             rs == [i \in 1..Len(fs) |-> WriteMember(as[i], fs[i], rec[i], placeholder)]
         IN IF Len(rec) # Len(fs) \/ \E i \in 1..Len(fs) : rs[i].res = "Err"
            THEN [arrays |-> as, res |-> "Err"]
            ELSE WriteItems([i \in 1..Len(fs) |-> rs[i].a], fs, Tail(items), placeholder)

\* to_arrow2; placeholder is what the value buffer holds at a null slot
to_arrow2(fs, items, placeholder) ==
    WriteItems([i \in 1..Len(fs) |-> NewArray(fs[i])], fs, items, placeholder)

\* the event of one slot of an array
ReadCell(a, i) ==
    IF ~a.validity[i] THEN Ev("Null")
    ELSE CASE a.data_type = "Bool" -> Scalar("Bool", a.values[i] = 1)
           [] a.data_type \in StringTypes ->
                 Scalar("Str", SubSeq(a.data, a.offsets[i] + 1, a.offsets[i + 1]))
           [] OTHER -> Scalar(a.data_type, a.values[i])

\* the member a slot deserializes to: None for a null slot, otherwise the
\* value, wrapped in Some for an Option member
ReadMember(f, a, i) ==
    LET ev == ReadCell(a, i) IN
    IF ev.t = "Null" THEN Member(FALSE, ev) ELSE Member(f.nullable, ev)

RECURSIVE MinLen(_)
MinLen(as) ==
    IF Len(as) = 1 THEN ArrayLen(as[1])
    ELSE LET m == MinLen(Tail(as)) IN
         IF ArrayLen(as[1]) < m THEN ArrayLen(as[1]) ELSE m

Least(a, b) == IF a < b THEN a ELSE b

\* arrays.iter().map(|a| a.as_ref().len()).min().unwrap_or_default()
NumItems(as) == IF as = <<>> THEN 0 ELSE MinLen(as)

\* from_arrow2 that reads the slots from the last to the first
from_arrow2_reads_backwards(fs, as) ==
    LET num_items == NumItems(as)
        n == Least(Len(fs), Len(as))
    IN IF \E i \in 1..n : as[i].data_type # fs[i].data_type
       THEN [items |-> <<>>, res |-> "Err"]
       ELSE [items |-> [j \in 1..num_items |->
                           [i \in 1..n |->
                               ReadMember(fs[i], as[i], num_items + 1 - j)]],
             res |-> "Ok"]

\* from_arrow2 that reads one item less than the arrays hold
from_arrow2_stops_early(fs, as) ==
    LET num_items == IF NumItems(as) = 0 THEN 0 ELSE NumItems(as) - 1
        n == Least(Len(fs), Len(as))
    IN IF \E i \in 1..n : as[i].data_type # fs[i].data_type
       THEN [items |-> <<>>, res |-> "Err"]
       ELSE [items |-> [j \in 1..num_items |->
                           [i \in 1..n |-> ReadMember(fs[i], as[i], j)]],
             res |-> "Ok"]

\* from_arrow2 that fails when the arrays differ in length
from_arrow2_rejects_mismatch(fs, as) ==
    LET num_items == NumItems(as)
        n == Least(Len(fs), Len(as))
    IN IF \/ \E i \in 1..n : as[i].data_type # fs[i].data_type
          \/ \E i \in 1..Len(as) : ArrayLen(as[i]) # num_items
       THEN [items |-> <<>>, res |-> "Err"]
       ELSE [items |-> [j \in 1..num_items |->
                           [i \in 1..n |-> ReadMember(fs[i], as[i], j)]],
             res |-> "Ok"]

\* from_arrow2 that takes the item count from the arrays paired with a field
from_arrow2_counts_paired_arrays(fs, as) ==
    LET n == Least(Len(fs), Len(as))
        num_items == NumItems(SubSeq(as, 1, n))
    IN IF \E i \in 1..n : as[i].data_type # fs[i].data_type
       THEN [items |-> <<>>, res |-> "Err"]
       ELSE [items |-> [j \in 1..num_items |->
                           [i \in 1..n |-> ReadMember(fs[i], as[i], j)]],
             res |-> "Ok"]

\* from_arrow2: the item count is the least array length; fields and arrays
\* are paired by position (zip) and every pair's buffers are extracted
from_arrow2(fs, as) ==
    LET num_items == NumItems(as)
        n == Least(Len(fs), Len(as))
    IN IF \E i \in 1..n : as[i].data_type # fs[i].data_type
       THEN [items |-> <<>>, res |-> "Err"]
       ELSE [items |-> [j \in 1..num_items |->
                           [i \in 1..n |-> ReadMember(fs[i], as[i], j)]],
             res |-> "Ok"]

\* what a null slot's value may hold
Placeholders == {0, 1}

RoundTripIdle ==
    /\ rtFields = <<>> /\ rtItems = <<>> /\ rtArrays = <<>> /\ rtOut = <<>>
    /\ rtPc = "items" /\ rtResult = "Ok"

\* one primitive field "item" and a sequence of items conforming to it
RoundTripItems ==
    /\ \E dt \in PrimitiveTypes, nullable \in BOOLEAN :
          rtFields = <<Field("item", dt, nullable)>>
    /\ \E n \in 0..MaxItems :
          rtItems \in [1..n -> {<<m>> : m \in ItemsFor(rtFields[1])}]
    /\ rtArrays = <<>> /\ rtOut = <<>>
    /\ rtPc = "items" /\ rtResult = "Ok"

ToArrow2 ==
    /\ rtPc = "items"
    /\ \E placeholder \in Placeholders :
         LET r == to_arrow2(rtFields, rtItems, placeholder) IN
           /\ rtArrays' = r.arrays
           /\ rtResult' = r.res
           /\ rtPc' = IF r.res = "Ok" THEN "written" ELSE "failed"
    /\ UNCHANGED <<rtFields, rtItems, rtOut>>
    /\ UNCHANGED <<tupleVars, arraysVars, tsVars, trVars, pairVars, dictVars>>

FromArrow2 ==
    /\ rtPc = "written"
    /\ LET r == from_arrow2(rtFields, rtArrays) IN
           /\ rtOut' = r.items
           /\ rtResult' = r.res
           /\ rtPc' = IF r.res = "Ok" THEN "read" ELSE "failed"
    /\ UNCHANGED <<rtFields, rtItems, rtArrays>>
    /\ UNCHANGED <<tupleVars, arraysVars, tsVars, trVars, pairVars, dictVars>>

NextRoundTrip == ToArrow2 \/ FromArrow2

\* the array holding a column of members
RECURSIVE ArrayOf(_, _)
ArrayOf(f, ms) ==
    IF ms = <<>> THEN NewArray(f)
    ELSE WriteMember(ArrayOf(f, SubSeq(ms, 1, Len(ms) - 1)), f, ms[Len(ms)], 0).a

\* the columns of up to MaxItems members conforming to a field
ColumnsFor(f) == UNION {[1..n -> ItemsFor(f)] : n \in 0..MaxItems}

\* the fields of the arrays handed to from_arrow2 directly
ReadSchema == <<Field("a", "I64", TRUE), Field("b", "U8", FALSE)>>

\* arrays handed to from_arrow2 that no to_arrow2 call produced together:
\* no array at all, or one array per field, each of its own length
RoundTripArrays ==
    /\ rtFields = ReadSchema
    /\ rtItems = <<>>
    /\ rtArrays \in {<<>>} \cup
          {<<ArrayOf(rtFields[1], c1), ArrayOf(rtFields[2], c2)>> :
              c1 \in ColumnsFor(rtFields[1]), c2 \in ColumnsFor(rtFields[2])}
    /\ rtOut = <<>>
    /\ rtPc = "written" /\ rtResult = "Ok"

NextRead == FromArrow2

\* the types of the arrays handed over when fields and arrays differ in
\* number: the third array has no field in ReadSchema
ArraySchema == ReadSchema \o <<Field("c", "Bool", FALSE)>>

\* the columns of up to MaxItems equal values of a non-nullable field
FilledColumns(f, v) ==
    {[j \in 1..n |-> Member(FALSE, EventOf(f.data_type, v))] : n \in 0..MaxItems}

\* up to two fields and up to three arrays, each array of its own length:
\* fields without an array and arrays without a field both occur
RoundTripMismatch ==
    /\ \E k \in 0..Len(ReadSchema) : rtFields = SubSeq(ReadSchema, 1, k)
    /\ rtItems = <<>>
    /\ rtArrays \in
          {<<>>}
          \cup {<<ArrayOf(ArraySchema[1], c1)>> : c1 \in ColumnsFor(ArraySchema[1])}
          \cup {<<ArrayOf(ArraySchema[1], c1), ArrayOf(ArraySchema[2], c2)>> :
                   c1 \in ColumnsFor(ArraySchema[1]),
                   c2 \in FilledColumns(ArraySchema[2], 1)}
          \cup {<<ArrayOf(ArraySchema[1], c1), ArrayOf(ArraySchema[2], c2),
                   ArrayOf(ArraySchema[3], c3)>> :
                   c1 \in ColumnsFor(ArraySchema[1]),
                   c2 \in FilledColumns(ArraySchema[2], 1),
                   c3 \in FilledColumns(ArraySchema[3], TRUE)}
    /\ rtOut = <<>>
    /\ rtPc = "written" /\ rtResult = "Ok"

\* an integer field and items of an integer type of their own: the field
\* was declared by hand, not traced from the items
RoundTripCoerced ==
    /\ \E dt \in IntTypes, nullable \in BOOLEAN :
          rtFields = <<Field("item", dt, nullable)>>
    /\ \E ty \in IntTypes : \E n \in 0..MaxItems :
          rtItems \in [1..n ->
                         {<<m>> : m \in ItemsFor(Field("item", ty, rtFields[1].nullable))}]
    /\ rtArrays = <<>> /\ rtOut = <<>>
    /\ rtPc = "items" /\ rtResult = "Ok"

NextCoerce == ToArrow2 \/ FromArrow2

----------------------------------------------------------------------------
(* The builder tree over primitive array builders: serialize_into_arrays,  *)
(* serialize_into_array and deserialize_from_array                         *)

\* the events a sequence of scalar items serializes to
ItemsEvents(items) ==
    <<Ev("StartList")>> \o Flatten([j \in 1..Len(items) |-> MemberEvents(items[j])])
        \o <<Ev("EndList")>>

\* serialize_into_sink over a single array builder: the events are fed in
\* order and the first error returns
RECURSIVE FeedArray(_, _)
FeedArray(c, evs) ==
    IF evs = <<>> THEN [b |-> c, res |-> "Ok"]
    ELSE LET r == PrimitiveAccept(c, Head(evs)) IN
         IF r.res = "Ok" THEN FeedArray(r.b, Tail(evs)) ELSE r

\* StripOuterSequenceSink over a single array builder
FeedArrayStripped(c, evs) ==
    IF Len(evs) >= 2 /\ Head(evs) = Ev("StartList") /\ evs[Len(evs)] = Ev("EndList")
    THEN FeedArray(c, SubSeq(evs, 2, Len(evs) - 1))
    ELSE [b |-> c, res |-> "Err"]

\* serialize_into_array that hands the outer sequence to the array builder
serialize_into_array_keeps_outer(f, items, placeholder) ==
    LET r == FeedArray(build_array_builder(f, placeholder), ItemsEvents(items))
    IN IF r.res = "Ok" THEN [arrays |-> <<r.b.array>>, res |-> "Ok"]
       ELSE [arrays |-> <<>>, res |-> "Panic"]

\* internal::serialize_into_array: the result of serialize_into_sink is
\* unwrapped, so a rejected event panics; otherwise build_array returns
\* the array
serialize_into_array(f, items, placeholder) ==
    LET r == FeedArrayStripped(build_array_builder(f, placeholder), ItemsEvents(items))
    IN IF r.res = "Ok" THEN [arrays |-> <<r.b.array>>, res |-> "Ok"]
       ELSE [arrays |-> <<>>, res |-> "Panic"]

\* deserialize_from_array: build_dynamic_source replays the array slot by
\* slot, AddOuterSequenceSource wraps the slots into one sequence
deserialize_from_array(f, a) ==
    IF a.data_type # f.data_type THEN [items |-> <<>>, res |-> "Err"]
    ELSE [items |-> [j \in 1..ArrayLen(a) |-> ReadMember(f, a, j)], res |-> "Ok"]

\* the fields the single-array entry points are explored with
ArrayFields ==
    {Field("item", dt, nullable) :
        dt \in {"Bool", "U8", "I64", "Utf8"}, nullable \in BOOLEAN}

\* an item the builder of the field rejects: a value of another type
Unfit(f) ==
    IF f.data_type \in StringTypes THEN Member(FALSE, Scalar("Bool", TRUE))
    ELSE Member(FALSE, Scalar("Str", <<97>>))

\* the items given for a field: conforming ones, a value of another type,
\* and None
ScalarsFor(f) == ItemsFor(f) \cup {Unfit(f), Member(FALSE, Ev("Null"))}

\* one field and a sequence of scalar items
RoundTripScalars ==
    /\ \E f \in ArrayFields : rtFields = <<f>>
    /\ \E n \in 0..MaxItems : rtItems \in [1..n -> ScalarsFor(rtFields[1])]
    /\ rtArrays = <<>> /\ rtOut = <<>>
    /\ rtPc = "items" /\ rtResult = "Ok"

SerializeIntoArray ==
    /\ rtPc = "items"
    /\ \E placeholder \in Placeholders :
         LET r == serialize_into_array(rtFields[1], rtItems, placeholder) IN
           /\ rtArrays' = r.arrays
           /\ rtResult' = r.res
           /\ rtPc' = IF r.res = "Ok" THEN "written" ELSE "failed"
    /\ UNCHANGED <<rtFields, rtItems, rtOut>>
    /\ UNCHANGED <<tupleVars, arraysVars, tsVars, trVars, pairVars, dictVars>>

DeserializeFromArray ==
    /\ rtPc = "written"
    /\ LET r == deserialize_from_array(rtFields[1], rtArrays[1]) IN
           /\ rtOut' = r.items
           /\ rtResult' = r.res
           /\ rtPc' = IF r.res = "Ok" THEN "read" ELSE "failed"
    /\ UNCHANGED <<rtFields, rtItems, rtArrays>>
    /\ UNCHANGED <<tupleVars, arraysVars, tsVars, trVars, pairVars, dictVars>>

NextArray == SerializeIntoArray \/ DeserializeFromArray

\* generic_sinks::build_struct_array_builder over the array builders of
\* the fields
StructBuilderFor(fs, placeholder) ==
    [builders |-> [i \in 1..Len(fs) |-> build_array_builder(fs[i], placeholder)],
     validity |-> <<>>,
     state |-> Start,
     finished |-> FALSE]

\* serialize_into_arrays that hands the outer sequence to the struct builder
serialize_into_arrays_keeps_outer(fs, items, placeholder) ==
    LET r == Feed(StructBuilderFor(fs, placeholder), SequenceEvents(items))
    IN IF r.res = "Ok"
       THEN [builder |-> r.this, res |-> "Ok",
             arrays |-> [i \in 1..Len(fs) |-> r.this.builders[i].array]]
       ELSE [builder |-> r.this, res |-> "Err", arrays |-> <<>>]

\* internal::serialize_into_arrays: the builder tree is fed the items
\* without their outer sequence; an error returns, otherwise build_arrays
\* returns the array of each child
serialize_into_arrays(fs, items, placeholder) ==
    LET r == FeedStripped(StructBuilderFor(fs, placeholder), SequenceEvents(items))
    IN IF r.res = "Ok"
       THEN [builder |-> r.this, res |-> "Ok",
             arrays |-> [i \in 1..Len(fs) |-> r.this.builders[i].array]]
       ELSE [builder |-> r.this, res |-> "Err", arrays |-> <<>>]

\* the schemas both paths are given
PathSchemas == {ReadSchema, <<Field("item", "Utf8", TRUE)>>}

\* the members both paths are given for a field: a value, None, and a
\* value of another type
PathMembers(f) ==
    LET v == IF f.data_type \in StringTypes THEN <<97>> ELSE 1 IN
    {Member(f.nullable, EventOf(f.data_type, v)), Member(FALSE, Ev("Null")), Unfit(f)}

\* the records both paths are given: one member per field, or the first
\* member only
PathRecords(fs) ==
    {rec \in [1..Len(fs) -> UNION {PathMembers(fs[i]) : i \in 1..Len(fs)}] :
        \A i \in 1..Len(fs) : rec[i] \in PathMembers(fs[i])}
    \cup {<<m>> : m \in PathMembers(fs[1])}

RoundTripRecords ==
    /\ rtFields \in PathSchemas
    /\ \E n \in 0..MaxItems : rtItems \in [1..n -> PathRecords(rtFields)]
    /\ rtArrays = <<>> /\ rtOut = <<>>
    /\ rtPc = "items" /\ rtResult = "Ok"

\* the same fields and items given to the builder tree
SerializeIntoArrays ==
    /\ abOp = "new"
    /\ \E placeholder \in Placeholders :
         LET r == serialize_into_arrays(rtFields, rtItems, placeholder) IN
           /\ builder' = r.builder
           /\ arrays' = r.arrays
           /\ abResult' = r.res
    /\ fields' = rtFields
    /\ abOp' = "serialize"
    /\ UNCHANGED <<accepted, batch, builds, abArg>>
    /\ UNCHANGED <<tupleVars, rtVars, tsVars, trVars, pairVars, dictVars>>

NextPaths == ToArrow2 \/ SerializeIntoArrays

\* the deprecated serialize_into_arrays with the error of to_arrow2 dropped
deprecated_serialize_into_arrays_drops_error(fs, items, placeholder) ==
    [to_arrow2(fs, items, placeholder) EXCEPT !.res = "Ok"]

\* arrow2_impl::api::serialize_into_arrays (deprecated):
\* crate::to_arrow2(fields, items)
deprecated_serialize_into_arrays(fs, items, placeholder) ==
    to_arrow2(fs, items, placeholder)

\* arrow2_impl::api::deserialize_from_arrays (deprecated):
\* crate::from_arrow2(fields, arrays)
deprecated_deserialize_from_arrays(fs, as) == from_arrow2(fs, as)

\* the arguments of the deprecated entry points: fields and records for
\* serialize_into_arrays, or a field and an array of its type or of another
\* for deserialize_from_arrays
RoundTripDeprecated ==
    \/ RoundTripRecords
    \/ /\ rtFields = <<Field("item", "Utf8", TRUE)>>
       /\ rtItems = <<>>
       /\ \E g \in {rtFields[1], Field("item", "I64", TRUE)} :
             \E c \in ColumnsFor(g) : rtArrays = <<ArrayOf(g, c)>>
       /\ rtOut = <<>>
       /\ rtPc = "written" /\ rtResult = "Ok"

SerializeIntoArraysDeprecated ==
    /\ rtPc = "items"
    /\ \E placeholder \in Placeholders :
         LET r == deprecated_serialize_into_arrays(rtFields, rtItems, placeholder) IN
           /\ rtArrays' = r.arrays
           /\ rtResult' = r.res
           /\ rtPc' = IF r.res = "Ok" THEN "written" ELSE "failed"
    /\ UNCHANGED <<rtFields, rtItems, rtOut>>
    /\ UNCHANGED <<tupleVars, arraysVars, tsVars, trVars, pairVars, dictVars>>

DeserializeFromArraysDeprecated ==
    /\ rtPc = "written"
    /\ LET r == deprecated_deserialize_from_arrays(rtFields, rtArrays) IN
           /\ rtOut' = r.items
           /\ rtResult' = r.res
           /\ rtPc' = IF r.res = "Ok" THEN "read" ELSE "failed"
    /\ UNCHANGED <<rtFields, rtItems, rtArrays>>
    /\ UNCHANGED <<tupleVars, arraysVars, tsVars, trVars, pairVars, dictVars>>

NextDeprecated == SerializeIntoArraysDeprecated \/ DeserializeFromArraysDeprecated


----------------------------------------------------------------------------
(* Date-time string wrappers *)

\* Rust's / and % on i64: the quotient truncates toward zero, the
\* remainder has the sign of the dividend
TruncDiv(a, b) == IF a >= 0 THEN a \div b ELSE -((-a) \div b)
TruncRem(a, b) == a - b * TruncDiv(a, b)

\* chrono: the civil date of a day count since 1970-01-01 and back
\* (proleptic Gregorian calendar)
CivilFromDays(days) ==
    LET z == days + 719468
        era == z \div 146097
        doe == z - era * 146097
        yoe == (doe - doe \div 1460 + doe \div 36524 - doe \div 146096) \div 365
        doy == doe - (365 * yoe + yoe \div 4 - yoe \div 100)
        mp == (5 * doy + 2) \div 153
        d == doy - (153 * mp + 2) \div 5 + 1
        m == IF mp < 10 THEN mp + 3 ELSE mp - 9
        y == yoe + era * 400 + (IF m <= 2 THEN 1 ELSE 0)
    IN <<y, m, d>>

DaysFromCivil(date) ==
    LET y == date[1] - (IF date[2] <= 2 THEN 1 ELSE 0)
        era == y \div 400
        yoe == y - era * 400
        mp == IF date[2] > 2 THEN date[2] - 3 ELSE date[2] + 9
        doy == (153 * mp + 2) \div 5 + date[3] - 1
        doe == yoe * 365 + yoe \div 4 - yoe \div 100 + doy
    IN era * 146097 + doe - 719468

RECURSIVE Pow10(_)
Pow10(k) == IF k = 0 THEN 1 ELSE 10 * Pow10(k - 1)

\* the decimal digits of n, zero-padded to the given width
Digits(n, width) == [i \in 1..width |-> (n \div Pow10(width - i)) % 10]

RECURSIVE NumberOf(_)
NumberOf(ds) ==
    IF ds = <<>> THEN 0 ELSE 10 * NumberOf(SubSeq(ds, 1, Len(ds) - 1)) + ds[Len(ds)]

\* NaiveDateTime::from_timestamp(secs, nsecs) / Utc.timestamp(secs, nsecs)
from_timestamp(secs, nsecs) == [secs |-> secs, nsecs |-> nsecs]

\* format!("{:?}", val): date T time, then the fraction of the second,
\* absent when zero and otherwise printed with 3, 6 or 9 digits, then Z
\* for a DateTime<Utc>.  The text is kept as its parts.
DebugFormat(kind, dt) ==
    LET days == dt.secs \div 86400
        sod == dt.secs % 86400
    IN [date |-> CivilFromDays(days),
        time |-> <<sod \div 3600, (sod \div 60) % 60, sod % 60>>,
        frac |-> CASE dt.nsecs = 0 -> <<>>
                   [] dt.nsecs % 1000000 = 0 -> Digits(dt.nsecs \div 1000000, 3)
                   [] dt.nsecs % 1000 = 0 -> Digits(dt.nsecs \div 1000, 6)
                   [] OTHER -> Digits(dt.nsecs, 9),
        zone |-> IF kind = "Utc" THEN "Z" ELSE ""]

\* the text names a month, a day and a time of day
InCalendar(text) ==
    /\ text.date[2] \in 1..12 /\ text.date[3] \in 1..31
    /\ text.time[1] \in 0..23 /\ text.time[2] \in 0..59 /\ text.time[3] \in 0..59

\* s.parse::<NaiveDateTime>() / s.parse::<DateTime<Utc>>(): the date-time
\* the text denotes, or an error when the text is no such date-time
Parse(kind, text) ==
    IF \/ text.zone # (IF kind = "Utc" THEN "Z" ELSE "")
       \/ Len(text.frac) > 9
       \/ ~InCalendar(text)
    THEN [ok |-> FALSE, dt |-> from_timestamp(0, 0)]
    ELSE [ok |-> TRUE,
          dt |-> from_timestamp(
                    DaysFromCivil(text.date) * 86400
                        + text.time[1] * 3600 + text.time[2] * 60 + text.time[3],
                    NumberOf(text.frac) * Pow10(9 - Len(text.frac)))]

\* NaiveDateTime::timestamp_millis
timestamp_millis(dt) == dt.secs * 1000 + dt.nsecs \div 1000000

\* u32 values are kept as their four bytes, least significant first
RECURSIVE Pow256(_)
Pow256(k) == IF k = 0 THEN 1 ELSE 256 * Pow256(k - 1)

\* x as u32: the low 32 bits of x in two's complement
AsU32(x) == [i \in 1..4 |-> (x \div Pow256(i - 1)) % 256]

\* the integer a u32 below 2^31 stands for
IntOf(b) == b[1] + 256 * b[2] + 65536 * b[3] + 16777216 * b[4]

\* column k of the long multiplication of a and b, from term i on
RECURSIVE ColSum(_, _, _, _)
ColSum(a, b, k, i) ==
    IF i > 4 THEN 0
    ELSE (IF k + 1 - i \in 1..4 THEN a[i] * b[k + 1 - i] ELSE 0) + ColSum(a, b, k, i + 1)

\* the carry into column k
RECURSIVE Carry(_, _, _)
Carry(a, b, k) ==
    IF k = 1 THEN 0 ELSE (ColSum(a, b, k - 1, 1) + Carry(a, b, k - 1)) \div 256

\* a * b on u32: the low 32 bits of the product, and whether the product
\* needs more than 32 bits
MulU32(a, b) ==
    LET digit(k) == (ColSum(a, b, k, 1) + Carry(a, b, k)) % 256 IN
    [bytes |-> [k \in 1..4 |-> digit(k)],
     overflow |-> \E k \in 5..8 : digit(k) # 0]

\* (val % 1000) as u32 * 100_000.  With overflow checks (a debug build) a
\* product beyond 32 bits panics, without (a release build) it wraps.
SubsecNanos(val, checks) ==
    LET p == MulU32(AsU32(TruncRem(val, 1000)), AsU32(100000)) IN
    [panic |-> checks /\ p.overflow, nsecs |-> p.bytes]

\* from_timestamp panics unless nsecs < 2_000_000_000
ValidNanos(b) == b[4] < 128 /\ IntOf(b) < 2000000000

\* NaiveDateTimeStrSource::next / DateTimeStrSource::next in a build with
\* or without overflow checks: the event returned, or a panic
StrSourceOutcome(kind, ev, checks) ==
    IF ev.t = "I64"
    THEN LET n == SubsecNanos(ev.v, checks) IN
         IF n.panic \/ ~ValidNanos(n.nsecs)
         THEN [res |-> "Panic", ev |-> NoEvent]
         ELSE [res |-> "Ok",
               ev |-> Str(DebugFormat(kind,
                          from_timestamp(TruncDiv(ev.v, 1000), IntOf(n.nsecs))))]
    ELSE [res |-> "Ok", ev |-> ev]

\* next() of the wrapped source returning None: the stream has ended
EndOfStream == Ev("EndOfStream")

\* a Str source that formats every integer event
StrSourceNext_formats_integers(kind, ev) ==
    IF ev.t \in IntTypes
    THEN LET val == ev.v IN
         Str(DebugFormat(kind,
                 from_timestamp(TruncDiv(val, 1000), TruncRem(val, 1000) * 100000)))
    ELSE ev

\* NaiveDateTimeStrSource::next / DateTimeStrSource::next.  The timestamps
\* explored are not negative, so the remainder lies in 0..999 and the cast
\* to u32 and the 32 bit product keep its value.
StrSourceNext(kind, ev) ==
    IF ev.t = "I64"
    THEN LET val == ev.v IN
         Str(DebugFormat(kind,
                 from_timestamp(TruncDiv(val, 1000), TruncRem(val, 1000) * 100000)))
    ELSE ev

\* a Str builder that hands the text it could not parse to the wrapped builder
StrBuilderAccept_forwards_unparsed(kind, ev) ==
    IF ev.t = "Str"
    THEN LET p == Parse(kind, ev.v) IN
         IF p.ok THEN [res |-> "Ok", ev |-> I64(timestamp_millis(p.dt))]
         ELSE [res |-> "Err", ev |-> ev]
    ELSE [res |-> "Ok", ev |-> ev]

\* NaiveDateTimeStrBuilder::accept / DateTimeStrBuilder::accept: the event
\* handed to the wrapped builder, or the parse error
StrBuilderAccept(kind, ev) ==
    IF ev.t = "Str"
    THEN LET p == Parse(kind, ev.v) IN
         IF p.ok THEN [res |-> "Ok", ev |-> I64(timestamp_millis(p.dt))]
         ELSE [res |-> "Err", ev |-> NoEvent]
    ELSE [res |-> "Ok", ev |-> ev]

\* the millisecond timestamps explored: every value up to MaxMillis, and
\* values with whole seconds, minutes, hours and days
Timestamps ==
    (0..MaxMillis) \cup {999, 1000, 1001, 1500, 59999, 60000, 3600000, 3661001,
                         86399999, 86400000, 432000000, 2147483647}

ChronoIdle ==
    /\ tsKind = "Naive" /\ srcEv = NoEvent /\ strEv = NoEvent /\ sinkEv = NoEvent
    /\ tsPc = "source" /\ tsResult = "Ok"

\* the timestamps before the epoch explored
NegativeTimestamps == {-m : m \in Timestamps \ {0}}

ChronoNegative ==
    /\ tsKind \in {"Naive", "Utc"}
    /\ srcEv \in {I64(m) : m \in NegativeTimestamps}
    /\ strEv = NoEvent /\ sinkEv = NoEvent
    /\ tsPc = "source" /\ tsResult = "Ok"

\* next() on a Str source, in either build
SourceNextBuild ==
    /\ tsPc = "source"
    /\ \E checks \in BOOLEAN :
         LET r == StrSourceOutcome(tsKind, srcEv, checks) IN
           /\ strEv' = r.ev
           /\ tsResult' = r.res
    /\ tsPc' = "text"
    /\ UNCHANGED <<tsKind, srcEv, sinkEv>>
    /\ UNCHANGED <<tupleVars, arraysVars, rtVars, trVars, pairVars, dictVars>>

NextNegative == SourceNextBuild

ChronoSource ==
    /\ tsKind \in {"Naive", "Utc"}
    /\ srcEv \in {I64(m) : m \in Timestamps} \cup {Ev("Null")}
    /\ strEv = NoEvent /\ sinkEv = NoEvent
    /\ tsPc = "source" /\ tsResult = "Ok"

SourceNext ==
    /\ tsPc = "source"
    /\ strEv' = StrSourceNext(tsKind, srcEv)
    /\ tsPc' = "text"
    /\ tsResult' = "Ok"
    /\ UNCHANGED <<tsKind, srcEv, sinkEv>>
    /\ UNCHANGED <<tupleVars, arraysVars, rtVars, trVars, pairVars, dictVars>>

BuilderAccept ==
    /\ tsPc = "text"
    /\ strEv # EndOfStream
    /\ LET r == StrBuilderAccept(tsKind, strEv) IN
           /\ sinkEv' = r.ev
           /\ tsResult' = r.res
    /\ tsPc' = "done"
    /\ UNCHANGED <<tsKind, srcEv, strEv>>
    /\ UNCHANGED <<tupleVars, arraysVars, rtVars, trVars, pairVars, dictVars>>

NextChrono == SourceNext \/ BuilderAccept

\* the events the wrappers are given one after the other: values of every
\* kind, markers, container boundaries, texts of either date-time type
FrameEvents ==
    {Ev("Null"), Ev("Default"), Ev("Some"), Scalar("Bool", TRUE),
     Scalar("U64", 1000), Scalar("I32", 1)}
        \cup StartEvents \cup EndEvents
        \cup {I64(m) : m \in Timestamps}
        \cup {Str(DebugFormat(k, from_timestamp(s, 0))) :
                 k \in {"Naive", "Utc"}, s \in {0, 1}}
        \cup {Str([DebugFormat(k, from_timestamp(0, 0)) EXCEPT !.date[2] = 13]) :
                 k \in {"Naive", "Utc"}}

\* the wrapped source is about to return an event or the end of the stream
SourceHolds(ev) ==
    /\ ev \in FrameEvents \cup {EndOfStream}
    /\ strEv = NoEvent /\ sinkEv = NoEvent
    /\ tsPc = "source" /\ tsResult = "Ok"

\* a builder wrapper is about to be given an event
SinkGiven(ev) ==
    /\ ev \in FrameEvents
    /\ srcEv = NoEvent /\ sinkEv = NoEvent
    /\ tsPc = "text" /\ tsResult = "Ok"

ChronoFrame ==
    /\ tsKind \in {"Naive", "Utc"}
    /\ SourceHolds(srcEv) \/ SinkGiven(strEv)

\* the next call on the same wrapper: next() on the Str source
SourceAgain ==
    /\ tsPc = "done"
    /\ srcEv' \in FrameEvents \cup {EndOfStream}
    /\ strEv' = NoEvent /\ sinkEv' = NoEvent
    /\ tsPc' = "source" /\ tsResult' = "Ok"
    /\ UNCHANGED tsKind
    /\ UNCHANGED <<tupleVars, arraysVars, rtVars, trVars, pairVars, dictVars>>

\* the next call on the same wrapper: accept() on the Str builder
SinkAgain ==
    /\ tsPc = "done"
    /\ strEv' \in FrameEvents
    /\ srcEv' = NoEvent /\ sinkEv' = NoEvent
    /\ tsPc' = "text" /\ tsResult' = "Ok"
    /\ UNCHANGED tsKind
    /\ UNCHANGED <<tupleVars, arraysVars, rtVars, trVars, pairVars, dictVars>>

NextFrame == SourceNext \/ BuilderAccept \/ SourceAgain \/ SinkAgain

----------------------------------------------------------------------------
(* Schema tracing: serialize_into_fields *)

\* the name of a struct member, announced before the member's value
Key(name) == [t |-> "Key", v |-> name]

\* the Rust types of the samples: a scalar type T or Option<T>, or a
\* record type with members [name, ty, optional] in declaration order
TracedTypes == {"Bool", "U8", "I64"}
ScalarType(ty, optional) ==
    [kind |-> "Scalar", ty |-> ty, optional |-> optional, members |-> <<>>]
MemberType(name, ty, optional) == [name |-> name, ty |-> ty, optional |-> optional]
RecordType(members) ==
    [kind |-> "Record", ty |-> "Struct", optional |-> FALSE, members |-> members]
ScalarTypes == {ScalarType(ty, o) : ty \in TracedTypes, o \in BOOLEAN}
RecordTypes ==
    {RecordType(<<MemberType("a", ty, o)>>) : ty \in TracedTypes, o \in BOOLEAN} \cup
    {RecordType(<<MemberType("a", ta, oa), MemberType("b", tb, ob)>>) :
        ta \in TracedTypes, oa \in BOOLEAN, tb \in {"U8", "I64"}, ob \in BOOLEAN}

\* a value of a type
ValueOf(ty) == IF ty = "Bool" THEN Scalar("Bool", TRUE) ELSE Scalar(ty, 1)

\* the values of a type [ty, optional]: Some(v) and None, or the plain v
ValuesOf(ty) ==
    IF ty.optional THEN {Member(TRUE, ValueOf(ty.ty)), Member(FALSE, Ev("Null"))}
    ELSE {Member(FALSE, ValueOf(ty.ty))}

\* the records of a record type
RecordsOfType(rty) ==
    LET ms == rty.members IN
    {rec \in [1..Len(ms) -> UNION {ValuesOf(ms[i]) : i \in 1..Len(ms)}] :
        \A i \in 1..Len(ms) : rec[i] \in ValuesOf(ms[i])}

\* the events one sample serializes to: a record announces each member by
\* its name
SampleEvents(ty, item) ==
    IF ty.kind = "Scalar" THEN MemberEvents(item)
    ELSE <<Ev("StartStruct")>>
            \o Flatten([i \in 1..Len(ty.members) |->
                            <<Key(ty.members[i].name)>> \o MemberEvents(item[i])])
            \o <<Ev("EndStruct")>>

SamplesEvents(ty, items) ==
    <<Ev("StartList")>> \o Flatten([j \in 1..Len(items) |-> SampleEvents(ty, items[j])])
        \o <<Ev("EndList")>>

\* Tracer::new: nothing seen yet.  children are the member tracers in the
\* order the members were first seen; key is the member announced last
NewTracer ==
    [kind |-> "Unknown", data_type |-> "Null", nullable |-> FALSE,
     children |-> <<>>, open |-> FALSE, key |-> 0]

\* the position of the member tracer of a name (0 when there is none)
ChildIndex(tr, name) ==
    IF \E i \in 1..Len(tr.children) : tr.children[i].name = name
    THEN CHOOSE i \in 1..Len(tr.children) : tr.children[i].name = name
    ELSE 0

\* merging an observed scalar type into a recorded one
MergeType(recorded, seen) ==
    CASE recorded = "Null" -> [ok |-> TRUE, ty |-> seen]
      [] recorded = seen -> [ok |-> TRUE, ty |-> recorded]
      [] OTHER -> [ok |-> FALSE, ty |-> recorded]

TrRet(tr, res) == [tr |-> tr, res |-> res]

\* a None that also forgets the type recorded so far
SeeNull_forgets_type(child) == [child EXCEPT !.nullable = TRUE, !.data_type = "Null"]

\* None or the marker Some seen for a member: nullable is set, the recorded
\* type stays
SeeNull(child) == [child EXCEPT !.nullable = TRUE]

\* EventSink::accept of the tracer
TracerAccept(tr, ev) ==
    IF ~tr.open
    THEN CASE ev.t = "StartStruct" ->
                 IF tr.kind \in {"Unknown", "Struct"}
                 THEN TrRet([tr EXCEPT !.kind = "Struct", !.data_type = "Struct",
                                       !.open = TRUE, !.key = 0], "Ok")
                 ELSE TrRet(tr, "Err")
           [] ev.t \in {"Null", "Some"} -> TrRet([tr EXCEPT !.nullable = TRUE], "Ok")
           [] ev.t \in PrimitiveTypes ->
                 IF tr.kind = "Struct" THEN TrRet(tr, "Err")
                 ELSE LET m == MergeType(tr.data_type, ev.t) IN
                      IF m.ok
                      THEN TrRet([tr EXCEPT !.kind = "Primitive", !.data_type = m.ty],
                                 "Ok")
                      ELSE TrRet(tr, "Err")
           [] OTHER -> TrRet(tr, "Err")
    ELSE CASE ev.t = "EndStruct" -> TrRet([tr EXCEPT !.open = FALSE, !.key = 0], "Ok")
           [] ev.t = "Key" ->
                 LET i == ChildIndex(tr, ev.v) IN
                 IF i # 0 THEN TrRet([tr EXCEPT !.key = i], "Ok")
                 ELSE TrRet([tr EXCEPT
                                !.children = Append(@, Field(ev.v, "Null", FALSE)),
                                !.key = Len(tr.children) + 1], "Ok")
           [] tr.key = 0 -> TrRet(tr, "Err")
           [] ev.t \in {"Null", "Some"} ->
                 TrRet([tr EXCEPT !.children[tr.key] = SeeNull(@)], "Ok")
           [] ev.t \in PrimitiveTypes ->
                 LET m == MergeType(tr.children[tr.key].data_type, ev.t) IN
                 IF m.ok
                 THEN TrRet([tr EXCEPT !.children[tr.key].data_type = m.ty], "Ok")
                 ELSE TrRet(tr, "Err")
           [] OTHER -> TrRet(tr, "Err")

RECURSIVE FeedTracer(_, _)
FeedTracer(tr, evs) ==
    IF evs = <<>> THEN TrRet(tr, "Ok")
    ELSE LET r == TracerAccept(tr, Head(evs)) IN
         IF r.res = "Ok" THEN FeedTracer(r.tr, Tail(evs)) ELSE r

\* StripOuterSequenceSink over the tracer
FeedTracerStripped(tr, evs) ==
    IF Len(evs) >= 2 /\ Head(evs) = Ev("StartList") /\ evs[Len(evs)] = Ev("EndList")
    THEN FeedTracer(tr, SubSeq(evs, 2, Len(evs) - 1))
    ELSE TrRet(tr, "Err")

NoField == [name |-> "", data_type |-> "None", nullable |-> FALSE, children |-> <<>>]

\* Tracer::to_field: a tracer that saw no value has the type Null, which is
\* a field only under allow_null_fields
to_field(tr, name, options) ==
    IF \/ tr.open
       \/ ~options.allow_null_fields /\ tr.data_type = "Null"
       \/ ~options.allow_null_fields
             /\ \E i \in 1..Len(tr.children) : tr.children[i].data_type = "Null"
    THEN [field |-> NoField, res |-> "Err"]
    ELSE [field |-> [name |-> name, data_type |-> tr.data_type,
                     nullable |-> tr.nullable \/ tr.data_type = "Null",
                     children |->
                        [i \in 1..Len(tr.children) |->
                            [tr.children[i] EXCEPT
                                !.nullable = @ \/ tr.children[i].data_type = "Null"]]],
          res |-> "Ok"]

\* serialize_into_fields that returns the children of any root
serialize_into_fields_any_root(ty, items, options) ==
    LET fed == FeedTracerStripped(NewTracer, SamplesEvents(ty, items))
        root == to_field(fed.tr, "root", options)
    IN CASE fed.res # "Ok" -> [fields |-> <<>>, root |-> NoField, res |-> "TraceError"]
         [] root.res # "Ok" -> [fields |-> <<>>, root |-> NoField, res |-> "TraceError"]
         [] OTHER -> [fields |-> root.field.children, root |-> root.field, res |-> "Ok"]

\* internal::serialize_into_fields
serialize_into_fields(ty, items, options) ==
    LET fed == FeedTracerStripped(NewTracer, SamplesEvents(ty, items))
        root == to_field(fed.tr, "root", options)
    IN CASE fed.res # "Ok" -> [fields |-> <<>>, root |-> NoField, res |-> "TraceError"]
         [] root.res # "Ok" -> [fields |-> <<>>, root |-> NoField, res |-> "TraceError"]
         [] root.field.data_type = "Struct" ->
               [fields |-> root.field.children, root |-> root.field, res |-> "Ok"]
         [] root.field.data_type = "Null" ->
               [fields |-> <<>>, root |-> root.field, res |-> "NoRecordsFound"]
         [] OTHER ->
               [fields |-> <<>>, root |-> root.field, res |-> "UnexpectedRootDataType"]

TracingOptions == {[allow_null_fields |-> b] : b \in BOOLEAN}

TraceIdle ==
    /\ trItems = [ty |-> RecordType(<<>>), items |-> <<>>]
    /\ trOptions = [allow_null_fields |-> FALSE]
    /\ trRoot = NoField /\ trFields = <<>>
    /\ trPc = "samples" /\ trResult = "Ok"

\* the samples: up to MaxItems values of one Rust type, records or scalars
TraceSamples ==
    /\ \E ty \in ScalarTypes \cup RecordTypes :
        \E n \in 0..MaxItems :
        \E items \in [1..n -> IF ty.kind = "Scalar" THEN ValuesOf(ty)
                                ELSE RecordsOfType(ty)] :
            trItems = [ty |-> ty, items |-> items]
    /\ trOptions \in TracingOptions
    /\ trRoot = NoField /\ trFields = <<>>
    /\ trPc = "samples" /\ trResult = "Ok"

SerializeIntoFields ==
    /\ trPc = "samples"
    /\ LET r == serialize_into_fields(trItems.ty, trItems.items, trOptions) IN
           /\ trRoot' = r.root
           /\ trFields' = r.fields
           /\ trResult' = r.res
    /\ trPc' = "done"
    /\ UNCHANGED <<trItems, trOptions>>
    /\ UNCHANGED <<tupleVars, arraysVars, rtVars, tsVars, pairVars, dictVars>>

NextTrace == SerializeIntoFields

----------------------------------------------------------------------------
(* Dictionary builder: a string builder for the values, an interning table *)
(* from value to index and a key buffer.  values holds the dictionary in   *)
(* insertion order, so the table maps values[i] to i - 1.                  *)

NewDictionary == [values |-> <<>>, keys |-> <<>>]

\* the strings fed to the dictionary builder
DictStrings == {"a", "b", "c"}

\* the index the table holds for v
Lookup(d, v) == (CHOOSE i \in 1..Len(d.values) : d.values[i] = v) - 1

\* a dictionary builder that interns every value anew
DictAccept_always_inserts(d, v) ==
    [values |-> Append(d.values, v), keys |-> Append(d.keys, Len(d.values))]

\* a Str event on the dictionary builder: the value is looked up in the
\* table or inserted with the next index, and the index is appended to the
\* key buffer
DictAccept(d, v) ==
    IF \E i \in 1..Len(d.values) : d.values[i] = v
    THEN [d EXCEPT !.keys = Append(@, Lookup(d, v))]
    ELSE [values |-> Append(d.values, v), keys |-> Append(d.keys, Len(d.values))]

DictIdle == dictBuilder = NewDictionary /\ dictFed = <<>>

DictFeed ==
    /\ Len(dictFed) < MaxEvents
    /\ \E v \in DictStrings :
          /\ dictBuilder' = DictAccept(dictBuilder, v)
          /\ dictFed' = Append(dictFed, v)
    /\ UNCHANGED <<tupleVars, arraysVars, rtVars, tsVars, trVars, pairVars>>

NextDict == DictFeed

----------------------------------------------------------------------------
(* Two ArraysBuilder instances *)

\* the fields both instances are built for
PairSchema == <<Field("a", "I64", TRUE), Field("b", "I64", FALSE)>>

\* ArraysBuilder::new: the instance owns its fields and its builder; calls
\* and results record what was called on it and what each call returned
NewInstance(fs) ==
    [fields |-> fs, builder |-> build_struct_array_builder(fs),
     calls |-> <<>>, results |-> <<>>]

Call(op, arg) == [op |-> op, arg |-> arg]

\* one call on an instance (&mut self): push, extend or build_arrays
Step(inst, call) ==
    LET r == CASE call.op = "push" ->
                    LET a == push(inst.builder, call.arg[1])
                    IN [builder |-> a.this, res |-> a.res, arrays |-> <<>>]
               [] call.op = "extend" ->
                    LET a == extend(inst.builder, call.arg)
                    IN [builder |-> a.this, res |-> a.res, arrays |-> <<>>]
               [] OTHER -> build_arrays(inst.fields, inst.builder)
    IN [inst EXCEPT !.builder = r.builder,
                    !.calls = Append(@, call),
                    !.results = Append(@, [res |-> r.res, arrays |-> r.arrays])]

\* the calls of one instance run alone, in order
RECURSIVE RunAlone(_, _)
RunAlone(inst, calls) ==
    IF calls = <<>> THEN inst ELSE RunAlone(Step(inst, Head(calls)), Tail(calls))

\* a call on instance k that also installs its builder in the other instances
CallOn_shared_builder(is, k, call) ==
    LET s == Step(is[k], call) IN
    [j \in 1..Len(is) |-> IF j = k THEN s ELSE [is[j] EXCEPT !.builder = s.builder]]

\* a call on instance k: the method borrows that instance alone
CallOn(is, k, call) == [is EXCEPT ![k] = Step(is[k], call)]

PairIdle == insts = <<>>

PairNew == insts = <<NewInstance(PairSchema), NewInstance(PairSchema)>>

\* the calls made on both instances so far
Calls == Len(insts[1].calls) + Len(insts[2].calls)

\* the calls a caller can make on an instance built for fs: push of a record,
\* extend by two records, build_arrays
PairCalls(fs) ==
    {Call("push", <<item>>) : item \in RecordsOf(fs)}
        \cup {Call("extend", <<item, item>>) : item \in RecordsOf(fs)}
        \cup {Call("build", <<>>)}

\* one call on one of the two instances
PairCall ==
    /\ Calls < MaxCalls
    /\ \E k \in 1..2 : \E call \in PairCalls(insts[k].fields) :
          insts' = CallOn(insts, k, call)
    /\ UNCHANGED <<tupleVars, arraysVars, rtVars, tsVars, trVars, dictVars>>

NextPair == PairCall

InitPair == TupleIdle /\ ArraysIdle /\ RoundTripIdle /\ ChronoIdle /\ TraceIdle
    /\ PairNew /\ DictIdle
SpecPair == InitPair /\ [][NextPair]_vars

InitDict == TupleIdle /\ ArraysIdle /\ RoundTripIdle /\ ChronoIdle /\ TraceIdle
    /\ PairIdle /\ DictIdle
SpecDict == InitDict /\ [][NextDict]_vars

InitChrono == TupleIdle /\ ArraysIdle /\ RoundTripIdle /\ ChronoSource /\ TraceIdle
    /\ PairIdle /\ DictIdle
SpecChrono == InitChrono /\ [][NextChrono]_vars


Init == InitTuple /\ ArraysIdle /\ RoundTripIdle /\ ChronoIdle /\ TraceIdle
    /\ PairIdle /\ DictIdle
Next == NextTuple
Spec == Init /\ [][Next]_vars

InitArrays == TupleIdle /\ ArraysNew /\ RoundTripIdle /\ ChronoIdle /\ TraceIdle
    /\ PairIdle /\ DictIdle
SpecArrays == InitArrays /\ [][NextArrays]_vars

InitRead == TupleIdle /\ ArraysIdle /\ RoundTripArrays /\ ChronoIdle /\ TraceIdle
    /\ PairIdle /\ DictIdle
SpecRead == InitRead /\ [][NextRead]_vars

InitArray == TupleIdle /\ ArraysIdle /\ RoundTripScalars /\ ChronoIdle /\ TraceIdle
    /\ PairIdle /\ DictIdle
SpecArray == InitArray /\ [][NextArray]_vars

InitTrace == TupleIdle /\ ArraysIdle /\ RoundTripIdle /\ ChronoIdle /\ TraceSamples
    /\ PairIdle /\ DictIdle
SpecTrace == InitTrace /\ [][NextTrace]_vars

InitCoerce == TupleIdle /\ ArraysIdle /\ RoundTripCoerced /\ ChronoIdle /\ TraceIdle
    /\ PairIdle /\ DictIdle
SpecCoerce == InitCoerce /\ [][NextCoerce]_vars

InitNegative == TupleIdle /\ ArraysIdle /\ RoundTripIdle /\ ChronoNegative
    /\ TraceIdle /\ PairIdle /\ DictIdle
SpecNegative == InitNegative /\ [][NextNegative]_vars

InitMismatch == TupleIdle /\ ArraysIdle /\ RoundTripMismatch /\ ChronoIdle
    /\ TraceIdle /\ PairIdle /\ DictIdle
SpecMismatch == InitMismatch /\ [][NextRead]_vars

InitFrame == TupleIdle /\ ArraysIdle /\ RoundTripIdle /\ ChronoFrame /\ TraceIdle
    /\ PairIdle /\ DictIdle
SpecFrame == InitFrame /\ [][NextFrame]_vars

InitDeprecated == TupleIdle /\ ArraysIdle /\ RoundTripDeprecated /\ ChronoIdle
    /\ TraceIdle /\ PairIdle /\ DictIdle
SpecDeprecated == InitDeprecated /\ [][NextDeprecated]_vars

InitPaths == TupleIdle /\ ArraysIdle /\ RoundTripRecords /\ ChronoIdle /\ TraceIdle
    /\ PairIdle /\ DictIdle
SpecPaths == InitPaths /\ [][NextPaths]_vars

InitRoundTrip == TupleIdle /\ ArraysIdle /\ RoundTripItems /\ ChronoIdle /\ TraceIdle
    /\ PairIdle /\ DictIdle
SpecRoundTrip == InitRoundTrip /\ [][NextRoundTrip]_vars

----------------------------------------------------------------------------
(* Tuple builder: complete records (C5) *)

AllPrimitive == \A i \in 1..Len(builders) : builders[i].nest = 0

\* position p of a stream of complete records over n children:
\* StartTuple, one Int64 scalar per child, EndTuple
RecordSlot(p) == (p - 1) % (Len(builders) + 2)

WellFormed(h) ==
    \A p \in 1..Len(h) :
        CASE RecordSlot(p) = 0 -> h[p] = Ev("StartTuple")
          [] RecordSlot(p) = Len(builders) + 1 -> h[p] = Ev("EndTuple")
          [] OTHER -> h[p].t = "I64"

CompleteRecords(h) == Len(h) \div (Len(builders) + 2)

\* the value record j of the stream h gives to child i
RoutedValue(h, j, i) == h[(j - 1) * (Len(builders) + 2) + 1 + i]

\* the values of h that belong to child i, in input order
ValuesFor(h, i) ==
    LET open == RecordSlot(Len(h) + 1)
        k == CompleteRecords(h) + (IF open > i THEN 1 ELSE 0)
    IN [j \in 1..k |-> RoutedValue(h, j, i)]

\* C5: a stream of complete records (StartTuple, one scalar per child in
\* declared order, EndTuple) over primitive children is accepted event by
\* event, the i-th value of each record goes to the i-th child and to no
\* other, every EndTuple appends one true validity entry and returns the
\* builder to Start; after k records there are k validity entries and k
\* values in every child, in input order.
C5_CompleteRecord ==
    (AllPrimitive /\ WellFormed(hist)) =>
        /\ state = (IF RecordSlot(Len(hist) + 1) = 0 THEN Start
                    ELSE Value(RecordSlot(Len(hist) + 1) - 1, 0))
        /\ validity = [j \in 1..CompleteRecords(hist) |-> TRUE]
        /\ \A i \in 1..Len(builders) : builders[i].log = ValuesFor(hist, i)
        /\ (lastEv \in StartEvents \cup EndEvents \cup ValueEvents
              /\ WellFormed(Append(hist, lastEv))) => result = "Ok"

C5_Witness ==
    /\ Len(builders) = 1 /\ AllPrimitive
    /\ hist = <<Ev("StartTuple"), I64(2), Ev("EndTuple"),
                Ev("StartTuple"), I64(1), Ev("EndTuple")>>
    /\ validity = <<TRUE, TRUE>>
    /\ builders[1].log = <<I64(2), I64(1)>>
    /\ state = Start

----------------------------------------------------------------------------
(* Tuple builder: Null and Default in Start state (C6) *)

\* C6: a Null or Default event received in Start state is accepted, sends
\* exactly one default value to every child, appends exactly one validity
\* entry (false for Null, true for Default) and leaves the builder in Start.
C6_AbsentRecord ==
    [][(state.tag = "Start" /\ lastEv' \in {Ev("Null"), Ev("Default")}) =>
        /\ result' = "Ok"
        /\ Len(builders') = Len(builders)
        /\ \A i \in 1..Len(builders) :
              builders'[i] = Took(builders[i], Ev("Default"))
        /\ validity' = Append(validity, lastEv' = Ev("Default"))
        /\ state' = Start]_vars

C6_Witness ==
    /\ Len(builders) = 2
    /\ hist = <<Ev("Null"), Ev("Default")>>
    /\ lastEv = Ev("Default") /\ result = "Ok" /\ state = Start
    /\ validity = <<FALSE, TRUE>>
    /\ \A i \in 1..2 : builders[i].log = <<Ev("Default"), Ev("Default")>>

----------------------------------------------------------------------------
(* Tuple builder: arity (C7, C8) *)

\* C7: an EndTuple that arrives before every declared child received its
\* value is rejected, so that in Start state every child holds exactly as
\* many top-level elements as the validity buffer has entries.
C7_ChildrenAligned ==
    state.tag = "Start" =>
        \A i \in 1..Len(builders) : Elems(builders[i]) = Len(validity)

\* C8: a further value or Start event for an open record whose children all
\* received their value (active = n) returns an error to the caller; it
\* does not index past the end of the child list.
C8_TooManyIsError ==
    (/\ state.tag = "Value" /\ state.active = Len(builders)
     /\ lastEv \in ValueEvents \cup StartEvents
     /\ result # "Ok") => result = "Err"

----------------------------------------------------------------------------
(* Tuple builder: End events in Start state (C9) *)

\* C9: an End event (EndTuple, EndStruct, EndList, EndMap) fed in Start
\* state fails, sends nothing to any child and leaves state, validity and
\* children exactly as they were, so the events fed afterwards find the
\* builder as if the malformed event had never been sent.
C9_EndInStartRejected ==
    [][(state.tag = "Start" /\ lastEv' \in EndEvents) =>
        /\ result' = "Err"
        /\ UNCHANGED <<builders, validity, state, finished, hist>>]_vars

C9_Witness ==
    /\ lastEv \in EndEvents /\ result = "Err" /\ state = Start
    /\ hist = <<Ev("StartTuple"), I64(1), Ev("EndTuple")>>
    /\ validity = <<TRUE>>

----------------------------------------------------------------------------
(* ArraysBuilder: batches (C3, C4) *)

\* the arrays that hold exactly the records recs, in order
Columns(fs, recs) ==
    [i \in 1..Len(fs) |->
        [field |-> fs[i].name, cells |-> [j \in 1..Len(recs) |-> recs[j][i].ev]]]

\* C3: every build_arrays that succeeds returns exactly the records accepted
\* since the previous build_arrays (or since new), in acceptance order, and
\* leaves the builder in Start state with empty buffers; so no record is in
\* two batches and a build_arrays repeated at once returns empty arrays.
C3_BatchLifecycle ==
    [][(builds' = builds + 1 /\ abResult' = "Ok") =>
        /\ arrays' = Columns(fields, accepted)
        /\ builder' = build_struct_array_builder(fields)
        /\ builder'.state = Start
        /\ \A i \in 1..Len(fields) : builder'.builders[i].log = <<>>]_vars

C3_Witness ==
    /\ builds = 2 /\ abOp = "build" /\ abResult = "Ok"
    /\ Len(fields) = 2
    /\ Len(batch) = 2
    /\ arrays = Columns(fields, batch)
    /\ arrays[1].cells = <<Ev("Null"), I64(1)>>
    /\ builder = build_struct_array_builder(fields)

\* C4: build_arrays returns one array per schema field, in the schema's
\* field order, each as long as the number of records accepted in the batch.
C4_OneArrayPerField ==
    (abOp = "build" /\ abResult = "Ok") =>
        /\ Len(arrays) = Len(fields)
        /\ \A i \in 1..Len(fields) :
              /\ arrays[i].field = fields[i].name
              /\ Len(arrays[i].cells) = Len(batch)

C4_Witness ==
    /\ abOp = "build" /\ abResult = "Ok"
    /\ Len(fields) = 2 /\ Len(arrays) = 2
    /\ Len(batch) = 3
    /\ Len(arrays[1].cells) = 3 /\ Len(arrays[2].cells) = 3
    /\ arrays[1].field = "a" /\ arrays[2].field = "b"

----------------------------------------------------------------------------
(* Primitive round trip and null preservation (C1, C2) *)

\* C1: for every primitive field and every sequence of items conforming to
\* it, to_arrow2 succeeds and from_arrow2 of its arrays returns the input,
\* value for value and with None at exactly the same positions.
C1_RoundTrip ==
    /\ rtPc # "failed"
    /\ rtPc = "read" => rtOut = rtItems

C1_Witness ==
    /\ rtPc = "read" /\ rtResult = "Ok"
    /\ rtFields = <<Field("item", "I8", TRUE)>>
    /\ rtItems = << <<Member(TRUE, Scalar("I8", -128))>>,
                    <<Member(FALSE, Ev("Null"))>>,
                    <<Member(TRUE, Scalar("I8", 127))>> >>
    /\ rtOut = rtItems

\* C2: the validity entry at position i is false exactly when item i is
\* None, whatever its neighbours are; a non-nullable field has every entry
\* true; on read-back item i is None exactly when its validity entry is
\* false, whatever placeholder the value buffer holds there.
C2_NullPreservation ==
    /\ rtPc # "failed"
    /\ rtPc \in {"written", "read"} =>
          /\ Len(rtArrays[1].validity) = Len(rtItems)
          /\ \A i \in 1..Len(rtItems) :
                rtArrays[1].validity[i] = (rtItems[i][1].ev.t # "Null")
          /\ ~rtFields[1].nullable =>
                \A i \in 1..Len(rtItems) : rtArrays[1].validity[i]
    /\ rtPc = "read" =>
          /\ Len(rtOut) = Len(rtArrays[1].validity)
          /\ \A i \in 1..Len(rtOut) :
                (rtOut[i][1] = Member(FALSE, Ev("Null"))) = ~rtArrays[1].validity[i]

C2_Witness ==
    /\ rtPc = "read"
    /\ rtFields = <<Field("item", "Bool", TRUE)>>
    /\ rtItems = << <<Member(TRUE, Scalar("Bool", TRUE))>>,
                    <<Member(FALSE, Ev("Null"))>>,
                    <<Member(TRUE, Scalar("Bool", FALSE))>> >>
    /\ rtArrays[1].validity = <<TRUE, FALSE, TRUE>>
    /\ rtArrays[1].values[2] = 1
    /\ rtOut[2][1] = Member(FALSE, Ev("Null"))

----------------------------------------------------------------------------
(* Timestamp round trip (C10) *)

\* C10: for every millisecond timestamp m >= 0 the string a Str source
\* produces from I64(m) is converted back to I64(m) by the Str builder.
C10_TimestampRoundTrip ==
    (tsPc = "done" /\ srcEv.t = "I64" /\ srcEv.v >= 0) =>
        (tsResult = "Ok" /\ sinkEv = srcEv)

----------------------------------------------------------------------------
(* from_arrow2: arrays of different lengths (C11) *)

\* the member stored at slot j of a fixed-width array
SlotMember(f, a, j) ==
    IF a.validity[j] THEN Member(f.nullable, Scalar(a.data_type, a.values[j]))
    ELSE Member(FALSE, Ev("Null"))

\* the number of records from_arrow2 is to return for the arrays
RowCount(as) ==
    IF as = <<>> THEN 0
    ELSE CHOOSE n \in {ArrayLen(as[i]) : i \in 1..Len(as)} :
            \A i \in 1..Len(as) : n <= ArrayLen(as[i])

\* C11: from_arrow2 takes the least array length as the row count (0 when
\* there is no array); arrays of different lengths do not make it fail: it
\* returns the first RowCount records, each member read from its own array.
C11_LenientRowCount ==
    rtPc \notin {"items", "written"} =>
        /\ rtResult = "Ok"
        /\ Len(rtOut) = RowCount(rtArrays)
        /\ \A j \in 1..Len(rtOut) :
              /\ Len(rtOut[j]) = Len(rtArrays)
              /\ \A i \in 1..Len(rtArrays) :
                    rtOut[j][i] = SlotMember(rtFields[i], rtArrays[i], j)

\* arrays of different lengths were read and records came back
C11_Witness ==
    /\ rtPc = "read"
    /\ Len(rtArrays) = 2
    /\ ArrayLen(rtArrays[1]) > ArrayLen(rtArrays[2])
    /\ Len(rtOut) = ArrayLen(rtArrays[2])
    /\ Len(rtOut) >= 1

----------------------------------------------------------------------------
(* serialize_into_array: rejected streams (C12) *)

\* C12: when the builder rejects the events of the items,
\* serialize_into_array returns Err to its caller; it does not panic.
C12_ErrorsAreReturned ==
    rtPc = "failed" => rtResult = "Err"

----------------------------------------------------------------------------
(* serialize_into_array / deserialize_from_array (C19) *)

\* every item is a value of the field's type, or None for a nullable field
Conforming(f, items) == \A j \in 1..Len(items) : items[j] \in ItemsFor(f)

\* C19: n items conforming to the field become one array of n slots, one
\* slot per item (the outer sequence is not an element), and
\* deserialize_from_array returns exactly these n items in order.
C19_SingleArray ==
    /\ (rtPc # "items" /\ Conforming(rtFields[1], rtItems)) => rtPc # "failed"
    /\ rtPc \in {"written", "read"} =>
          /\ Len(rtArrays) = 1
          /\ ArrayLen(rtArrays[1]) = Len(rtItems)
    /\ rtPc = "read" => rtOut = rtItems

\* three items, one of them None, were written and read back
C19_Witness ==
    /\ rtPc = "read"
    /\ Len(rtItems) = 3
    /\ \E j \in 1..3 : rtItems[j].ev.t = "Null"
    /\ \E j \in 1..3 : rtItems[j].some
    /\ ArrayLen(rtArrays[1]) = 3
    /\ rtOut = rtItems

----------------------------------------------------------------------------
(* serialize_into_fields: the root type (C13) *)

\* C13: serialize_into_fields succeeds only for a root of type Struct and
\* then returns the root's children in order; a root of type Null (no
\* record traced) fails with "no records found", any other root type with
\* "unexpected root data type"; a failure returns no field.
C13_RootCheck ==
    trPc = "done" =>
        /\ trResult = "Ok" =>
              trRoot.data_type = "Struct" /\ trFields = trRoot.children
        /\ (trRoot # NoField /\ trRoot.data_type = "Struct") => trResult = "Ok"
        /\ (trRoot # NoField /\ trRoot.data_type = "Null") =>
              trResult = "NoRecordsFound"
        /\ (trRoot # NoField /\ trRoot.data_type \notin {"Struct", "Null"}) =>
              trResult = "UnexpectedRootDataType"
        /\ trResult # "Ok" => trFields = <<>>
        /\ (Len(trItems.items) > 0 /\ trItems.ty.kind = "Scalar") => trResult # "Ok"
        /\ Len(trItems.items) = 0 => trResult # "Ok"

\* records were traced into the fields of a struct root
C13_Witness ==
    /\ trPc = "done" /\ trResult = "Ok"
    /\ trRoot.data_type = "Struct"
    /\ Len(trFields) = 2
    /\ Len(trItems.items) >= 2

\* no sample at all: the root has the type Null
C13_WitnessNoRecords ==
    /\ trPc = "done" /\ trResult = "NoRecordsFound"
    /\ trItems.items = <<>>

\* scalar samples: the root has a primitive type
C13_WitnessScalarRoot ==
    /\ trPc = "done" /\ trResult = "UnexpectedRootDataType"
    /\ trItems.ty.kind = "Scalar" /\ Len(trItems.items) >= 1

----------------------------------------------------------------------------
(* serialize_into_fields: nullability and order (C18) *)

\* member i of the samples has a sample holding a value
HasValue(i) == \E j \in 1..Len(trItems.items) : trItems.items[j][i].ev.t # "Null"

\* C18: tracing records yields one field per member, in declaration order
\* and under the member's name; a member of optional values is traced with
\* the type of the contained value and nullable = true (a None does not
\* change the type), a member of plain values with its type and
\* nullable = false.
C18_TracedFields ==
    (trPc = "done" /\ trResult = "Ok") =>
        LET ms == trItems.ty.members IN
        /\ Len(trFields) = Len(ms)
        /\ \A i \in 1..Len(ms) :
              /\ trFields[i].name = ms[i].name
              /\ trFields[i].nullable = ms[i].optional
              /\ HasValue(i) => trFields[i].data_type = ms[i].ty

\* an optional member was traced from None, Some, None, next to a plain one
C18_Witness ==
    /\ trPc = "done" /\ trResult = "Ok"
    /\ Len(trItems.items) = 3
    /\ Len(trFields) = 2
    /\ trItems.items[1][1].ev.t = "Null"
    /\ trItems.items[2][1].some
    /\ trItems.items[3][1].ev.t = "Null"
    /\ trFields[1] = Field("a", trItems.ty.members[1].ty, TRUE)
    /\ trFields[2].nullable = FALSE
    /\ ~trOptions.allow_null_fields

----------------------------------------------------------------------------
(* ArraysBuilder: extend and push (C14) *)

\* push called for each record in order, up to the first call that fails
RECURSIVE PushAll(_, _)
PushAll(this, items) ==
    IF items = <<>> THEN Ret(this, "Ok")
    ELSE LET r == push(this, Head(items)) IN
         IF r.res = "Ok" THEN PushAll(r.this, Tail(items)) ELSE r

\* C14: extend(records) leaves the builder as the successive push calls
\* with the same records in the same order do (same buffers, same state,
\* same result); a successful extend on a builder in Start state leaves it
\* in Start state, with one validity entry more per record.
C14_ExtendIsRepeatedPush ==
    [][abOp' = "extend" =>
        LET r == PushAll(builder, abArg') IN
        /\ builder' = r.this
        /\ abResult' = r.res
        /\ (abResult' = "Ok" /\ builder.state = Start) =>
              /\ builder'.state = Start
              /\ Len(builder'.validity) = Len(builder.validity) + Len(abArg')]_vars

\* two records were extended onto a pushed one
C14_Witness ==
    /\ abOp = "extend" /\ abResult = "Ok"
    /\ Len(abArg) = 2
    /\ Len(accepted) = 3
    /\ Len(builder.validity) = 3
    /\ builder.state = Start

----------------------------------------------------------------------------
(* Integer coercion (C15, C16) *)

Bits(ty) ==
    CASE ty \in {"U8", "I8"} -> 8 [] ty \in {"U16", "I16"} -> 16
      [] ty \in {"U32", "I32"} -> 32 [] ty \in {"U64", "I64"} -> 64

\* the range of the type wide contains the range of the type narrow
Covers(wide, narrow) ==
    CASE narrow \in UnsignedTypes /\ wide \in UnsignedTypes -> Bits(wide) >= Bits(narrow)
      [] narrow \in UnsignedTypes /\ wide \in SignedTypes -> Bits(wide) > Bits(narrow)
      [] narrow \in SignedTypes /\ wide \in SignedTypes -> Bits(wide) >= Bits(narrow)
      [] OTHER -> FALSE

\* v lies in the range of the type; the values explored are all within
\* the signed 32 bit range
Fits(ty, v) ==
    CASE ty = "U8" -> 0 <= v /\ v <= 255
      [] ty = "I8" -> -128 <= v /\ v <= 127
      [] ty = "U16" -> 0 <= v /\ v <= 65535
      [] ty = "I16" -> -32768 <= v /\ v <= 32767
      [] ty \in {"U32", "U64"} -> 0 <= v
      [] OTHER -> TRUE

\* the values of the items, and of what was read back: 0 stands in for None
Logical(items) ==
    [j \in 1..Len(items) |->
        IF items[j][1].ev.t = "Null" THEN [some |-> FALSE, v |-> 0]
        ELSE [some |-> TRUE, v |-> items[j][1].ev.v]]

\* the items are of a type whose range the field's type contains
Widening ==
    \A j \in 1..Len(rtItems) :
        rtItems[j][1].ev.t # "Null" =>
            Covers(rtFields[1].data_type, rtItems[j][1].ev.t)

\* C15: items of a narrower integer type than the field's (u8 into U16,
\* u32 into I64) are accepted by to_arrow2, stored with their values, and
\* read back with the identical logical values.
C15_WideningLossless ==
    (rtPc # "items" /\ Widening) =>
        /\ rtPc # "failed"
        /\ \A j \in 1..Len(rtItems) :
              rtArrays[1].validity[j] =>
                  rtArrays[1].values[j] = rtItems[j][1].ev.v
        /\ rtPc = "read" => Logical(rtOut) = Logical(rtItems)

\* u32 values were written into an I64 field and read back
C15_Witness ==
    /\ rtPc = "read"
    /\ rtFields[1].data_type = "I64"
    /\ Len(rtItems) = 3
    /\ \A j \in 1..3 : rtItems[j][1].ev.t = "U32"
    /\ rtItems[2][1].ev.v = 70000
    /\ Logical(rtOut) = Logical(rtItems)

\* an item holds an integer outside the range of the field's type
Overflowing ==
    \E j \in 1..Len(rtItems) :
        /\ rtItems[j][1].ev.t # "Null"
        /\ ~Fits(rtFields[1].data_type, rtItems[j][1].ev.v)

\* C16: an integer outside the range of the field's type makes to_arrow2
\* fail with an error, nothing is stored modulo 2^w; every value of an
\* array that was returned is the item's value, unchanged.
C16_NarrowingNeverWraps ==
    rtPc # "items" =>
        /\ Overflowing => (rtPc = "failed" /\ rtResult = "Err")
        /\ ~Overflowing => rtPc # "failed"
        /\ rtPc \in {"written", "read"} =>
              \A j \in 1..Len(rtItems) :
                  rtArrays[1].validity[j] =>
                      rtArrays[1].values[j] = rtItems[j][1].ev.v

\* a u16 value beyond 255 was refused by a U8 field
C16_Witness ==
    /\ rtPc = "failed" /\ rtResult = "Err"
    /\ rtFields[1].data_type = "U8"
    /\ Len(rtItems) = 2
    /\ rtItems[1][1].ev = Scalar("U16", 1)
    /\ rtItems[2][1].ev = Scalar("U16", 65535)

\* u16 values within 0..255 were stored by a U8 field
C16_WitnessInRange ==
    /\ rtPc = "read"
    /\ rtFields[1].data_type = "U8"
    /\ Len(rtItems) = 2
    /\ \A j \in 1..2 : rtItems[j][1].ev.t = "U16"
    /\ rtArrays[1].values = <<0, 1>>

----------------------------------------------------------------------------
(* Date-time wrappers: what they leave alone (C17) *)

\* C17: the Str sources return every event other than I64, and the end of
\* the stream, unchanged; the Str builders hand every event other than Str
\* to the wrapped builder unchanged; each call yields exactly one event,
\* which depends on the event of that call only, whatever came before.
C17_WrappersForward ==
    /\ (tsPc \in {"text", "done"} /\ srcEv # NoEvent) =>
          /\ strEv # NoEvent
          /\ srcEv.t # "I64" => strEv = srcEv
          /\ srcEv.t = "I64" => strEv.t = "Str"
    /\ tsPc = "done" =>
          /\ strEv.t # "Str" => (tsResult = "Ok" /\ sinkEv = strEv)
          /\ tsResult = "Ok" => sinkEv # NoEvent
          /\ (strEv.t = "Str" /\ tsResult = "Ok") => sinkEv.t = "I64"

\* a Null went through a source and a builder
C17_Witness ==
    /\ tsPc = "done" /\ tsResult = "Ok"
    /\ srcEv = Ev("Null") /\ strEv = Ev("Null") /\ sinkEv = Ev("Null")

\* the source returned the end of the stream
C17_WitnessEnd ==
    /\ tsPc = "text" /\ srcEv = EndOfStream /\ strEv = EndOfStream

\* a builder was given an I64 and handed it on
C17_WitnessInteger ==
    /\ tsPc = "done" /\ srcEv = NoEvent
    /\ strEv.t = "I64" /\ sinkEv = strEv

----------------------------------------------------------------------------
(* to_arrow2 and the builder tree (C20) *)

\* two arrays hold the same contents: type, validity, the values of the
\* valid slots, offsets and bytes (a null slot's value is unspecified)
SameContents(a, b) ==
    /\ a.data_type = b.data_type
    /\ a.validity = b.validity
    /\ Len(a.values) = Len(b.values)
    /\ \A j \in 1..Len(a.values) : a.validity[j] => a.values[j] = b.values[j]
    /\ a.offsets = b.offsets
    /\ a.data = b.data

\* both paths have run on the fields and items
BothRan == rtPc # "items" /\ abOp = "serialize"

C20_WitnessRejected ==
    /\ BothRan
    /\ rtResult = "Err" /\ abResult = "Err"
    /\ Len(rtFields) = 2 /\ Len(rtItems) = 2
    /\ Len(rtItems[2]) = 2
    /\ rtItems[2][2] = Unfit(rtFields[2])

----------------------------------------------------------------------------
(* Tuple builder: nested children (C24) *)

\* C24: while a child of an open tuple is a container, every event from its
\* opening Start event up to and including the matching End event goes to
\* that child and to no other, at every nesting depth; the active index
\* advances by one exactly when the depth returns to 0.
C24_NestedRouting ==
    [][(/\ state.tag = "Value"
        /\ lastEv' \in StartEvents \cup EndEvents \cup MarkerEvents \cup ValueEvents
        /\ state.depth > 0 \/ lastEv' \in StartEvents
        /\ result' = "Ok") =>
          /\ \A i \in 1..Len(builders) :
                builders'[i].log = IF i = state.active + 1
                                   THEN Append(builders[i].log, lastEv')
                                   ELSE builders[i].log
          /\ state'.tag = "Value"
          /\ state'.active = state.active + (IF state'.depth = 0 THEN 1 ELSE 0)]_vars

----------------------------------------------------------------------------
(* Tuple builder: the End event that closes a record (C25) *)

\* C25: with a record open and no nested container open (depth 0) an
\* EndStruct, EndList or EndMap fails and leaves validity, state and
\* children as they were; EndTuple is accepted, appends one true validity
\* entry and returns the builder to Start.
C25_OnlyEndTupleCloses ==
    [][(state.tag = "Value" /\ state.depth = 0 /\ lastEv' \in EndEvents) =>
          IF lastEv' = Ev("EndTuple")
          THEN /\ result' = "Ok"
               /\ validity' = Append(validity, TRUE)
               /\ state' = Start
               /\ UNCHANGED builders
          ELSE /\ result' = "Err"
               /\ UNCHANGED <<builders, validity, state, finished, hist>>]_vars

\* an EndList was refused for an open record that holds one value
C25_Witness ==
    /\ lastEv = Ev("EndList") /\ result = "Err"
    /\ hist = <<Ev("StartTuple"), I64(1)>>
    /\ state = Value(1, 0)
    /\ validity = <<>>

\* the EndTuple that followed the refused EndStruct closed the record
C25_WitnessClosed ==
    /\ lastEv = Ev("EndTuple") /\ result = "Ok"
    /\ hist = <<Ev("StartTuple"), I64(1), Ev("EndTuple")>>
    /\ state = Start
    /\ validity = <<TRUE>>

----------------------------------------------------------------------------
(* Tuple builder: events in Start state (C26) *)

\* C26: in Start state StartTuple opens a record at child 0, depth 0, Null
\* and Default are accepted and leave the builder in Start; every other
\* Start event and every other value fails and changes nothing.
C26_StartProtocol ==
    [][(state.tag = "Start" /\ lastEv' \in StartEvents \cup ValueEvents) =>
          CASE lastEv' = Ev("StartTuple") ->
                  /\ result' = "Ok"
                  /\ state' = Value(0, 0)
                  /\ UNCHANGED <<builders, validity>>
            [] lastEv' \in {Ev("Null"), Ev("Default")} ->
                  /\ result' = "Ok"
                  /\ state' = Start
                  /\ Len(validity') = Len(validity) + 1
            [] OTHER ->
                  /\ result' = "Err"
                  /\ UNCHANGED <<builders, validity, state, finished, hist>>]_vars

\* a StartList was refused in Start state after one complete record
C26_Witness ==
    /\ lastEv = Ev("StartList") /\ result = "Err"
    /\ state = Start
    /\ hist = <<Ev("StartTuple"), I64(1), Ev("EndTuple")>>
    /\ validity = <<TRUE>>

\* a scalar was refused in Start state
C26_WitnessScalar ==
    /\ lastEv = I64(2) /\ result = "Err"
    /\ state = Start /\ hist = <<Ev("Null")>> /\ validity = <<FALSE>>

----------------------------------------------------------------------------
(* Tuple builder: finish (C27) *)

\* C27: finish fails while a record is open, finishes no child then and
\* leaves the finished flag false; in Start state it finishes the children
\* in declared order and sets finished only if every child succeeded.
C27_Finish ==
    [][(lastEv' = Ev("finish")) =>
          IF state.tag # "Start"
          THEN /\ result' = "Err"
               /\ ~finished'
               /\ UNCHANGED <<builders, validity, state>>
          ELSE /\ UNCHANGED <<validity, state>>
               /\ finished' = (result' = "Ok")
               /\ finished' = (\A i \in 1..Len(builders) : builders'[i].done)
               /\ \A i \in 1..Len(builders) :
                     /\ builders'[i].log = builders[i].log
                     /\ builders'[i].done => \A j \in 1..i : builders'[j].done]_vars

\* finish was refused for an open record
C27_Witness ==
    /\ lastEv = Ev("finish") /\ result = "Err"
    /\ state = Value(1, 0)
    /\ ~finished
    /\ Len(builders) = 2
    /\ \A i \in 1..2 : ~builders[i].done

\* finish succeeded after two records
C27_WitnessFinished ==
    /\ lastEv = Ev("finish") /\ result = "Ok"
    /\ finished /\ state = Start
    /\ validity = <<TRUE, FALSE>>
    /\ Len(builders) = 2
    /\ \A i \in 1..2 : builders[i].done

----------------------------------------------------------------------------
(* ArraysBuilder: build_arrays that fails (C30) *)

\* C30: a build_arrays that fails (a record is still open after a failed
\* push) leaves the ArraysBuilder with a fresh builder, in Start state and
\* with empty buffers, and returns no array; the records of the aborted
\* batch are in no later batch: a build_arrays that follows at once returns
\* empty arrays.
C30_ResetOnFailure ==
    [][/\ (builds' = builds + 1 /\ abResult' = "Err") =>
            /\ builder.state # Start
            /\ builder' = build_struct_array_builder(fields)
            /\ builder'.state = Start /\ builder'.validity = <<>>
            /\ \A i \in 1..Len(fields) : builder'.builders[i].log = <<>>
            /\ arrays' = <<>>
       /\ (builds' = builds + 1 /\ abOp = "build" /\ abResult = "Err") =>
            /\ abResult' = "Ok"
            /\ arrays' = Columns(fields, <<>>)]_vars

\* build_arrays failed after one accepted record and one refused push
C30_Witness ==
    /\ abOp = "build" /\ abResult = "Err" /\ builds = 1
    /\ Len(fields) = 2 /\ Len(batch) = 1
    /\ builder = build_struct_array_builder(fields)
    /\ arrays = <<>>

\* the batch built after the failed build_arrays holds none of its records
C30_WitnessLater ==
    /\ abOp = "build" /\ abResult = "Ok" /\ builds = 2
    /\ Len(fields) = 2
    /\ batch = <<>>
    /\ arrays = Columns(fields, <<>>)

----------------------------------------------------------------------------
(* Two ArraysBuilder instances (C23) *)

\* C23: whatever the interleaving of the push, extend and build_arrays calls
\* on two ArraysBuilder instances, each instance holds the builder and has
\* returned the results that its own calls, run alone in the same order on
\* a new instance, give.
C23_InstancesIndependent ==
    \A k \in 1..Len(insts) :
        insts[k] = RunAlone(NewInstance(insts[k].fields), insts[k].calls)

\* two records were pushed on the first instance, build_arrays was called
\* on the second: the first still holds its two records
C23_Witness ==
    /\ Len(insts) = 2
    /\ Len(insts[1].calls) = 2
    /\ \A j \in 1..2 : insts[1].calls[j].op = "push" /\ insts[1].results[j].res = "Ok"
    /\ insts[1].builder.validity = <<TRUE, TRUE>>
    /\ Len(insts[2].calls) = 1 /\ insts[2].calls[1].op = "build"
    /\ insts[2].results[1].res = "Ok"

----------------------------------------------------------------------------
(* Dictionary builder (C21) *)

\* the distinct values of a sequence, in the order of their first occurrence
RECURSIVE FirstSeen(_)
FirstSeen(s) ==
    IF s = <<>> THEN <<>>
    ELSE LET before == FirstSeen(SubSeq(s, 1, Len(s) - 1))
             v == s[Len(s)]
         IN IF \E i \in 1..Len(before) : before[i] = v THEN before
            ELSE Append(before, v)

\* C21: the dictionary holds the distinct values fed, in first-seen order
\* and each once; the key buffer holds one key per value fed, and every key
\* dereferences to the value it was appended for.
C21_DictionaryStable ==
    /\ dictBuilder.values = FirstSeen(dictFed)
    /\ \A i, j \in 1..Len(dictBuilder.values) :
          dictBuilder.values[i] = dictBuilder.values[j] => i = j
    /\ Len(dictBuilder.keys) = Len(dictFed)
    /\ \A j \in 1..Len(dictFed) :
          /\ dictBuilder.keys[j] \in 0..(Len(dictBuilder.values) - 1)
          /\ dictBuilder.values[dictBuilder.keys[j] + 1] = dictFed[j]

\* the column a, a, b, a
C21_Witness ==
    /\ dictFed = <<"a", "a", "b", "a">>
    /\ dictBuilder.values = <<"a", "b">>
    /\ dictBuilder.keys = <<0, 0, 1, 0>>

----------------------------------------------------------------------------
(* Deprecated entry points (C22) *)

\* C22: the deprecated serialize_into_arrays returns what to_arrow2 returns
\* for the same fields and items, and the deprecated deserialize_from_arrays
\* what from_arrow2 returns for the same fields and arrays: the same arrays
\* or items on success, an error on the same inputs.
C22_DeprecatedForward ==
    [][/\ (rtPc = "items" /\ rtPc' # "items") =>
            \E placeholder \in Placeholders :
                LET r == to_arrow2(rtFields, rtItems, placeholder) IN
                  /\ rtResult' = r.res
                  /\ rtArrays' = r.arrays
       /\ (rtPc = "written" /\ rtPc' # "written") =>
            LET r == from_arrow2(rtFields, rtArrays) IN
              /\ rtResult' = r.res
              /\ rtOut' = r.items]_vars

\* two records written and read back through the deprecated entry points
C22_Witness ==
    /\ rtPc = "read" /\ rtResult = "Ok"
    /\ Len(rtFields) = 2 /\ Len(rtItems) = 2
    /\ rtItems[1][1] = Member(FALSE, Ev("Null"))
    /\ rtOut = rtItems

\* the deprecated serialize_into_arrays refused a record
C22_WitnessRefused ==
    /\ rtPc = "failed" /\ rtResult = "Err"
    /\ Len(rtItems) = 2 /\ rtOut = <<>>

\* the deprecated deserialize_from_arrays refused an array of another type
C22_WitnessMismatch ==
    /\ rtPc = "failed" /\ rtResult = "Err"
    /\ rtItems = <<>>
    /\ Len(rtArrays) = 1 /\ rtArrays[1].data_type = "I64"
    /\ ArrayLen(rtArrays[1]) = 2

----------------------------------------------------------------------------
(* Date-time sources: timestamps before the epoch (C28) *)

\* the nanoseconds the fraction of a text stands for
FracNanos(text) == NumberOf(text.frac) * Pow10(9 - Len(text.frac))

\* C28: for every negative millisecond value m the Str sources return a
\* text: the sub-second part is computed without overflow or wrap-around
\* and lies in [0, 10^9), and the text denotes the instant m milliseconds
\* before the epoch.
C28_NegativeTimestamps ==
    (tsPc = "text" /\ srcEv.t = "I64" /\ srcEv.v < 0) =>
        /\ tsResult = "Ok"
        /\ strEv.t = "Str"
        /\ FracNanos(strEv.v) \in 0..999999999
        /\ Parse(tsKind, strEv.v).ok
        /\ timestamp_millis(Parse(tsKind, strEv.v).dt) = srcEv.v

----------------------------------------------------------------------------
(* Date-time builders: text that is no date-time (C29) *)

\* C29: a Str event whose text cannot be parsed makes the Str builder
\* return an error and hand no event to the wrapped builder; an error is
\* returned for no other event.
C29_MalformedText ==
    tsPc = "done" =>
        /\ (strEv.t = "Str" /\ ~Parse(tsKind, strEv.v).ok) =>
              (tsResult = "Err" /\ sinkEv = NoEvent)
        /\ tsResult = "Err" =>
              (strEv.t = "Str" /\ ~Parse(tsKind, strEv.v).ok /\ sinkEv = NoEvent)

\* a text with month 13 was refused
C29_Witness ==
    /\ tsPc = "done" /\ tsResult = "Err"
    /\ strEv.t = "Str" /\ strEv.v.date[2] = 13
    /\ sinkEv = NoEvent

\* a text with a zone was refused by the NaiveDateTime builder
C29_WitnessZone ==
    /\ tsPc = "done" /\ tsResult = "Err" /\ tsKind = "Naive"
    /\ strEv.t = "Str" /\ strEv.v.zone = "Z" /\ strEv.v.date[2] = 1
    /\ sinkEv = NoEvent

----------------------------------------------------------------------------
(* Tuple builder: accept calls that return an error (C31) *)

\* the events of accept (finish is no event)
AcceptEvents == StartEvents \cup EndEvents \cup MarkerEvents \cup ValueEvents

\* C31: an accept call that returns an error, raised by the tuple builder
\* or returned by a child, leaves the state (Start / Value(active, depth))
\* and the validity buffer as they were before the call.
C31_StateUnchangedOnError ==
    [][(lastEv' \in AcceptEvents /\ result' = "Err") =>
          (state' = state /\ validity' = validity)]_vars

\* the tuple builder refused a value in Start state after one closed record
C31_Witness ==
    /\ lastEv = I64(1) /\ result = "Err"
    /\ state = Start /\ validity = <<TRUE>>
    /\ hist = <<Ev("StartTuple"), I64(1), Ev("EndTuple")>>

\* the Int64 child refused a StartList: the record stays open at child 0
C31_WitnessChild ==
    /\ lastEv = Ev("StartList") /\ result = "Err"
    /\ hist = <<Ev("StartTuple")>>
    /\ state = Value(0, 0) /\ validity = <<>>
    /\ Len(builders) = 1 /\ builders[1].nest = 0 /\ builders[1].log = <<>>

\* the list child refused a value inside its open list: depth stays 1
C31_WitnessNested ==
    /\ lastEv = Str("a") /\ result = "Err"
    /\ hist = <<Ev("StartTuple"), Ev("StartList")>>
    /\ state = Value(0, 1) /\ validity = <<>>

----------------------------------------------------------------------------
(* Tuple builder: marker events (C32) *)

\* C32: a marker received in Start state is accepted and changes nothing;
\* a marker received while a record is open is handed to the active child
\* and to no other, the call returns what that child returned, and state
\* and validity stay as they were.
C32_MarkerEvents ==
    [][lastEv' \in MarkerEvents =>
          IF state.tag = "Start"
          THEN /\ result' = "Ok"
               /\ UNCHANGED <<builders, validity, state, finished>>
          ELSE /\ state' = state /\ validity' = validity
               /\ state.active + 1 \in DOMAIN builders
               /\ ChildAccept(builders[state.active + 1], lastEv')
                     = [b |-> builders'[state.active + 1], res |-> result']
               /\ \A i \in DOMAIN builders :
                     i # state.active + 1 => builders'[i] = builders[i]]_vars

\* the same for Start state and the open records that have an active child
MarkerEventsInRange ==
    [][(lastEv' \in MarkerEvents
          /\ (state.tag = "Value" => state.active < Len(builders))) =>
          IF state.tag = "Start"
          THEN /\ result' = "Ok"
               /\ UNCHANGED <<builders, validity, state, finished>>
          ELSE /\ state' = state /\ validity' = validity
               /\ ChildAccept(builders[state.active + 1], lastEv')
                     = [b |-> builders'[state.active + 1], res |-> result']
               /\ \A i \in DOMAIN builders :
                     i # state.active + 1 => builders'[i] = builders[i]]_vars

----------------------------------------------------------------------------
(* Tuple builder: the validity buffer (C33) *)

\* the step appends to validity: an accepted EndTuple that closes the open
\* record, or a Null or Default accepted in Start state
Appends ==
    /\ result' = "Ok"
    /\ \/ lastEv' = Ev("EndTuple") /\ state.tag = "Value" /\ state.depth = 0
       \/ lastEv' \in {Ev("Null"), Ev("Default")} /\ state.tag = "Start"

\* the events accepted so far that appended to validity, counted by
\* following Start / open record through the accepted events
RECURSIVE Appended(_, _, _)
Appended(evs, open, depth) ==
    IF evs = <<>> THEN 0
    ELSE LET e == Head(evs) IN
         CASE ~open /\ e \in {Ev("Null"), Ev("Default")} ->
                  1 + Appended(Tail(evs), FALSE, 0)
           [] ~open /\ e = Ev("StartTuple") -> Appended(Tail(evs), TRUE, 0)
           [] open /\ depth = 0 /\ e = Ev("EndTuple") ->
                  1 + Appended(Tail(evs), FALSE, 0)
           [] open /\ e \in StartEvents -> Appended(Tail(evs), TRUE, depth + 1)
           [] open /\ e \in EndEvents -> Appended(Tail(evs), TRUE, depth - 1)
           [] OTHER -> Appended(Tail(evs), open, depth)

\* C33: validity is append-only: an accepted EndTuple closing the record
\* and a Null or Default accepted in Start state append one entry, every
\* other event, every rejected event and finish append nothing; its length
\* is the number of accepted record-closing EndTuple events plus the number
\* of Null and Default events accepted in Start state.
C33_ValidityAccounting ==
    [][/\ IF Appends
          THEN /\ Len(validity') = Len(validity) + 1
               /\ SubSeq(validity', 1, Len(validity)) = validity
          ELSE validity' = validity
       /\ Len(validity') = Appended(hist', FALSE, 0)]_vars

\* an absent record, a default record and a closed record, with rejected
\* events and a marker in between
C33_Witness ==
    /\ validity = <<FALSE, TRUE, TRUE>>
    /\ hist = <<Ev("Null"), Ev("Default"), Ev("StartTuple"), Ev("Some"), I64(1),
                Ev("EndTuple")>>
    /\ state = Start

----------------------------------------------------------------------------
(* from_arrow2: fields and arrays that differ in number (C34) *)

\* C34: from_arrow2 pairs fields and arrays by position and reads the
\* first min(#fields, #arrays) pairs; the fields or arrays beyond them are
\* no error.  The number of records is the least length of all the arrays
\* given, those without a field included.
C34_CountMismatch ==
    rtPc \notin {"items", "written"} =>
        LET n == IF Len(rtFields) < Len(rtArrays) THEN Len(rtFields)
                 ELSE Len(rtArrays)
        IN /\ rtResult = "Ok"
           /\ Len(rtOut) = RowCount(rtArrays)
           /\ \A j \in 1..Len(rtOut) :
                 /\ Len(rtOut[j]) = n
                 /\ \A i \in 1..n :
                       rtOut[j][i] = SlotMember(rtFields[i], rtArrays[i], j)

\* one field, two arrays: the array without a field is the shorter one and
\* gives the number of records
C34_Witness ==
    /\ rtPc = "read"
    /\ Len(rtFields) = 1 /\ Len(rtArrays) = 2
    /\ ArrayLen(rtArrays[2]) < ArrayLen(rtArrays[1])
    /\ Len(rtOut) = ArrayLen(rtArrays[2]) /\ Len(rtOut) >= 1
    /\ Len(rtOut[1]) = 1

\* two fields, one array: the records hold the first field alone
C34_WitnessFewerArrays ==
    /\ rtPc = "read"
    /\ Len(rtFields) = 2 /\ Len(rtArrays) = 1
    /\ Len(rtOut) = ArrayLen(rtArrays[1]) /\ Len(rtOut) >= 1
    /\ Len(rtOut[1]) = 1

\* two fields, three arrays: the third array is the shortest
C34_WitnessThirdArray ==
    /\ rtPc = "read"
    /\ Len(rtFields) = 2 /\ Len(rtArrays) = 3
    /\ ArrayLen(rtArrays[3]) < ArrayLen(rtArrays[1])
    /\ ArrayLen(rtArrays[3]) < ArrayLen(rtArrays[2])
    /\ Len(rtOut) = ArrayLen(rtArrays[3]) /\ Len(rtOut) >= 1
    /\ Len(rtOut[1]) = 2

====
